---- MODULE Spec2Model ----
(***************************************************************************)
(* Model of the nomad agents:                                              *)
(*  - the watcher agent (agents/watcher/src/watcher.rs): ContractWatcher,  *)
(*    HistorySync, UpdateHandler, Watcher::run_all and the fraud responses;*)
(*  - NomadDB (nomad-base/src/nomad_db.rs): updates, messages and leaves,  *)
(*    the latest root and leaf index, the core-integrity records;          *)
(*  - the Ethereum and Substrate indexers (chains/*/src/home.rs);          *)
(*  - the monitor (agents/monitor/src): DispatchWait and its task, and the *)
(*    graph of channels built by Monitor and Domain;                       *)
(*  - NomadDB::wait_for_leaf polling the store.                            *)
(***************************************************************************)
EXTENDS Integers, Sequences, FiniteSets, TLC

\* ---------------------------------------------------------------- bounds
\* largest root value of the updates handed directly to check_double_update
MaxRoot == 2
\* number of direct check_double_update calls in one run
MaxCalls == 3
\* longest chain of updates held by the home or by a replica
MaxChainLen == 1
\* RPC calls that fail in one run
MaxFaults == 1
\* largest leaf index: the u32 leaf indexes are 0..MaxLeafIndex
MaxLeafIndex == 3
\* largest block number of an indexed chain, or seen by the monitor
MaxBlock == 1
\* number of events in the log of an indexed chain, or handled by DispatchWait
MaxEvents == 3

\* ------------------------------------------------------- program constants
\* mpsc::channel(200) in watch_double_update
ChannelCapacity == 200

\* --------------------------------------------------------- signed updates
\* H256 roots are numbered; 0 is H256::zero()
Roots == 0..MaxRoot
ZeroRoot == 0

\* addresses a signature can recover to; UpdaterAddr is home.updater()
UpdaterAddr == "updater"
OtherAddr == "other"
Signers == {UpdaterAddr, OtherAddr}
\* a signature that does not recover to any address
BadSig == "unrecoverable"

NoRoot == -1
NoUpdate == [previous_root |-> NoRoot, new_root |-> NoRoot, signer |-> "none"]

SignedUpdate(p, n, s) == [previous_root |-> p, new_root |-> n, signer |-> s]

\* SignedUpdate::recover: Ok(address) or Err
RecoverIsErr(u) == u.signer = BadSig
Recover(u) == u.signer

\* SignedUpdate::verify(signer): Ok iff the signature recovers to signer
VerifyIsOk(u, addr) == ~RecoverIsErr(u) /\ Recover(u) = addr

\* ------------------------------------------------------ NomadDB (updates)
\* update_ keyed by previous root, update_prev_root_ keyed by new root
EmptyDB(rs) == [update |-> [r \in rs |-> NoUpdate], prev_root |-> [r \in rs |-> NoRoot]]

update_by_previous_root(db, previous_root) == db.update[previous_root]

store_update(db, u) ==
    [db EXCEPT !.update[u.previous_root] = u,
               !.prev_root[u.new_root] = u.previous_root]

\* ----------------------------------------- UpdateHandler::check_double_update
OkResult == [ok |-> TRUE, first |-> NoUpdate, second |-> NoUpdate]
DoubleUpdate(a, b) == [ok |-> FALSE, first |-> a, second |-> b]

\* check_double_update reporting the pair with the arrived update first
check_double_update_swapped(db, u) ==
    LET existing == update_by_previous_root(db, u.previous_root) IN
    IF existing # NoUpdate
      THEN IF RecoverIsErr(existing) \/ RecoverIsErr(u)
             THEN [res |-> OkResult, db |-> db]
             ELSE IF existing.new_root # u.new_root /\ Recover(existing) = Recover(u)
                    THEN [res |-> DoubleUpdate(u, existing), db |-> db]
                    ELSE [res |-> OkResult, db |-> db]
      ELSE [res |-> OkResult, db |-> store_update(db, u)]

\* check_double_update comparing the new roots only, not the signers
check_double_update_any_signer(db, u) ==
    LET existing == update_by_previous_root(db, u.previous_root) IN
    IF existing # NoUpdate
      THEN IF existing.new_root # u.new_root
             THEN [res |-> DoubleUpdate(existing, u), db |-> db]
             ELSE [res |-> OkResult, db |-> db]
      ELSE [res |-> OkResult, db |-> store_update(db, u)]

\* check_double_update storing the update whatever the lookup found
check_double_update_blind_store(db, u) ==
    LET existing == update_by_previous_root(db, u.previous_root) IN
    IF existing # NoUpdate
      THEN IF RecoverIsErr(existing) \/ RecoverIsErr(u)
             THEN [res |-> OkResult, db |-> store_update(db, u)]
             ELSE IF existing.new_root # u.new_root /\ Recover(existing) = Recover(u)
                    THEN [res |-> DoubleUpdate(existing, u), db |-> store_update(db, u)]
                    ELSE [res |-> OkResult, db |-> store_update(db, u)]
      ELSE [res |-> OkResult, db |-> store_update(db, u)]

\* returns the call's result and the store it leaves behind
check_double_update(db, u) ==
    LET existing == update_by_previous_root(db, u.previous_root) IN
    IF existing # NoUpdate
      THEN IF RecoverIsErr(existing) \/ RecoverIsErr(u)
             THEN [res |-> OkResult, db |-> db]
             ELSE IF existing.new_root # u.new_root /\ Recover(existing) = Recover(u)
                    THEN [res |-> DoubleUpdate(existing, u), db |-> db]
                    ELSE [res |-> OkResult, db |-> db]
      ELSE [res |-> OkResult, db |-> store_update(db, u)]

\* ------------------------------------------------------------ deployment
HomeName == "home_1"
Replicas == {"replica_1"}
Contracts == {HomeName} \cup Replicas
ConnectionManagers == {"cm_1", "cm_2"}
HomeDomain == 1

\* --------------------------------------------------- chains of the contracts
\* the canonical chain is 0 -> 1 -> ... signed by the updater; ForkRoot is a
\* root that is not on it
ForkRoot == MaxChainLen + 1
ChainRoots == 0..ForkRoot

Canonical(k) == [i \in 1..k |-> SignedUpdate(i - 1, i, UpdaterAddr)]

\* the canonical chain with its last update replaced
EndingWith(k, last) == [i \in 1..k |-> IF i = k THEN last ELSE Canonical(k)[i]]

\* the home holds a canonical chain
HomeChains == {Canonical(k) : k \in 0..MaxChainLen}

\* a replica holds a canonical chain, or one whose last update is a second
\* update from the same previous root, or is signed with another key
ReplicaChains ==
    HomeChains
    \cup {EndingWith(k, SignedUpdate(k - 1, ForkRoot, UpdaterAddr)) : k \in 1..MaxChainLen}
    \cup {EndingWith(k, SignedUpdate(k - 1, k, OtherAddr)) : k \in 1..MaxChainLen}

VARIABLES
    watcher_db,         \* NomadDB of the UpdateHandler
    cdu_log,            \* direct check_double_update calls: argument, result
    chain,              \* per contract: the chain of updates it holds
    from,               \* per contract: how many of them are committed when
                        \* watch_double_update reads committed_root()
    home_state,         \* home.state()
    faults,             \* RPC failures so far
    csync,              \* per contract: its ContractSync task
    cw,                 \* per contract: its ContractWatcher task
    hs,                 \* per contract: its HistorySync task
    chan,               \* mpsc channel to the UpdateHandler
    handler,            \* UpdateHandler task
    home_update_calls,  \* updates passed to home.update
    wdu,                \* task spawned by watch_double_update
    iw,                 \* task spawned by watch_home_fail
    run_all,            \* task spawned by Watcher::run_all
    resp,               \* calls made by the fraud response
    db,                 \* a NomadDB on which the store operations are called
    db_log,             \* the calls made on db: operation, argument, result
    ix,                 \* an indexer: the events of its chain, the range of
                        \* a fetch and what the fetch returned
    dw,                 \* a DispatchWait: its pending dispatches and what it
                        \* has observed into its histograms
    dwc,                \* the task of that DispatchWait: its position in the
                        \* loop and its four channels
    graph,              \* the monitor's graph of channels while it is built
    wfl                 \* a wait_for_leaf future polling db

vars == <<watcher_db, cdu_log, chain, from, home_state, faults, csync, cw, hs,
          chan, handler, home_update_calls, wdu, iw, run_all, resp,
          db, db_log, ix, dw, dwc, graph, wfl>>

unit_vars == <<db, db_log, ix, dw, dwc, graph, wfl>>

pipeline_vars == <<chain, from, home_state, faults, csync, cw, hs, chan,
                   handler, home_update_calls, wdu, iw, run_all, resp>>

\* ================================================================= NomadDB
\* ------------------------------------------------------- messages, leaves
\* u32 leaf indexes: MaxLeafIndex stands for u32::MAX
LeafIndexes == 0..MaxLeafIndex
NoLeafIndex == -1

\* message.leaf_index - 1 on u32 in a build without overflow checks
wrapping_sub_one(i) == (i - 1) % (MaxLeafIndex + 1)

\* NomadMessage, without the fields no key is derived from
Destinations == {HomeDomain + 1}
Nonces == {0, 1}
Bodies == {"a", "b"}
NomadMessages ==
    {[origin |-> HomeDomain, nonce |-> n, destination |-> d, body |-> b] :
        n \in Nonces, d \in Destinations, b \in Bodies}

\* Encode for NomadMessage: the fields in wire order
to_vec(m) == <<m.origin, m.nonce, m.destination, m.body>>

\* bytes too short to hold the fixed fields of a message
TruncatedBytes == <<"ff">>
MessageBytes == {to_vec(m) : m \in NomadMessages} \cup {TruncatedBytes}

\* NomadMessage::read_from: Ok(message) or Err
ReadFromIsErr(bytes) == Len(bytes) # 4
read_from(bytes) ==
    [origin |-> bytes[1], nonce |-> bytes[2], destination |-> bytes[3], body |-> bytes[4]]

\* keccak256 of the bytes: a value that determines them
keccak256(bytes) == <<"keccak256", bytes>>
NoLeaf == <<"none", <<>>>>
Leaves == {keccak256(bytes) : bytes \in MessageBytes}

\* (destination << 32) | nonce, kept as its two 32-bit halves
destination_and_nonce(destination, nonce) == <<destination, nonce>>

RawCommittedMessage(i, bytes) ==
    [leaf_index |-> i, committed_root |-> ZeroRoot, message |-> bytes]
NoMessage == [leaf_index |-> NoLeafIndex, committed_root |-> NoRoot, message |-> <<>>]

\* RawCommittedMessage::leaf
leaf(message) == keccak256(message.message)

\* keys under the leaf_ prefix: be_u32(leaf_index) or be_u64(dest_and_nonce)
LeafIndexKey(i) == <<"u32", i>>
DestNonceKey(dn) == <<"u64", dn>>
LeafKeys ==
    {LeafIndexKey(i) : i \in LeafIndexes} \cup
    {DestNonceKey(destination_and_nonce(d, n)) : d \in Destinations, n \in Nonces}

\* ---------------------------------------------------------- core contracts
\* 20-byte addresses
Addresses == {"0x00", "0x7f"}

\* nomad_types::Proxy
Proxies == [implementation : Addresses, proxy : Addresses, beacon : Addresses]

\* PartialEq for Proxy: the implementation is not compared
ProxyEq(a, b) == a.proxy = b.proxy /\ a.beacon = b.beacon

\* CoreContracts (EVM), with one plain address and one proxy
CoreContracts == [updater_manager : Addresses, home : Proxies]

\* derived PartialEq of the contract set: field by field
CoreEq(a, b) == a.updater_manager = b.updater_manager /\ ProxyEq(a.home, b.home)

\* serde_json::to_string: the JSON document, keys in camelCase
to_string(core) ==
    [updaterManager |-> core.updater_manager,
     home |-> [implementation |-> core.home.implementation,
               proxy |-> core.home.proxy,
               beacon |-> core.home.beacon]]

\* serde_json::from_str on a document written by to_string
from_str(json) ==
    [updater_manager |-> json.updaterManager,
     home |-> [implementation |-> json.home.implementation,
               proxy |-> json.home.proxy,
               beacon |-> json.home.beacon]]

CoreNames == {"toast", "ethereum"}
NoJson == [none |-> TRUE]

\* ------------------------------------------------- latest root and updates
\* the store as NomadDB::new leaves it: no key is set
NewDB ==
    EmptyDB(Roots) @@
    [latest_root |-> NoRoot,
     latest_leaf_index |-> NoLeafIndex,
     leaf |-> [k \in LeafKeys |-> NoLeaf],
     message |-> [l \in Leaves |-> NoMessage],
     core_integrity |-> [name \in CoreNames |-> NoJson]]

store_latest_root(d, root) == [d EXCEPT !.latest_root = root]

retrieve_latest_root(d) == d.latest_root

\* store_latest_update writing the latest root whatever the update builds on
store_latest_update_always(d, u) == store_update(store_latest_root(d, u.new_root), u)

\* store_latest_update taking the latest root back to previous_root when the
\* update does not build off it
store_latest_update_rewinds(d, u) ==
    LET root == retrieve_latest_root(d)
        d1 == IF root # NoRoot
                THEN IF root = u.previous_root
                       THEN store_latest_root(d, u.new_root)
                       ELSE store_latest_root(d, u.previous_root)
                ELSE store_latest_root(d, u.new_root)
    IN store_update(d1, u)

store_latest_update(d, u) ==
    LET root == retrieve_latest_root(d)
        d1 == IF root # NoRoot
                THEN IF root = u.previous_root
                       THEN store_latest_root(d, u.new_root)
                       ELSE d
                ELSE store_latest_root(d, u.new_root)
    IN store_update(d1, u)

update_by_new_root(d, new_root) ==
    LET prev_root == d.prev_root[new_root] IN
    IF prev_root # NoRoot THEN update_by_previous_root(d, prev_root) ELSE NoUpdate

\* ------------------------------------------------------ message operations
update_latest_leaf_index(d, leaf_index) == [d EXCEPT !.latest_leaf_index = leaf_index]

retrieve_latest_leaf_index(d) == d.latest_leaf_index

\* store_leaf writing the leaf under its index only
store_leaf_index_only(d, leaf_index, dest_and_nonce, l) ==
    [d EXCEPT !.leaf[LeafIndexKey(leaf_index)] = l]

store_leaf(d, leaf_index, dest_and_nonce, l) ==
    [d EXCEPT !.leaf[DestNonceKey(dest_and_nonce)] = l,
              !.leaf[LeafIndexKey(leaf_index)] = l]

message_by_leaf(d, l) == d.message[l]

leaf_by_leaf_index(d, leaf_index) == d.leaf[LeafIndexKey(leaf_index)]

leaf_by_nonce(d, destination, nonce) ==
    d.leaf[DestNonceKey(destination_and_nonce(destination, nonce))]

message_by_nonce(d, destination, nonce) ==
    LET l == leaf_by_nonce(d, destination, nonce) IN
    IF l = NoLeaf THEN NoMessage ELSE message_by_leaf(d, l)

message_by_leaf_index(d, index) ==
    LET l == leaf_by_leaf_index(d, index) IN
    IF l = NoLeaf THEN NoMessage ELSE message_by_leaf(d, l)

\* returns the result and the store
store_raw_committed_message(d, message) ==
    IF ReadFromIsErr(message.message)
      THEN [res |-> "Err", db |-> d]
      ELSE LET parsed == read_from(message.message)
               dn == destination_and_nonce(parsed.destination, parsed.nonce)
               d1 == store_leaf(d, message.leaf_index, dn, leaf(message))
           IN [res |-> "Ok",
               db |-> [d1 EXCEPT !.message[leaf(message)] = message]]

\* the builds of the crate: with and without overflow checks
Builds == {"debug", "release"}

\* `message.leaf_index - 1` panics: overflow checks are on, the index is 0
SubOnePanics(build, leaf_index) == build = "debug" /\ leaf_index = 0

store_latest_message(d, message, build) ==
    LET idx == retrieve_latest_leaf_index(d) IN
    IF idx # NoLeafIndex
      THEN IF SubOnePanics(build, message.leaf_index)
             THEN [res |-> "panic", db |-> d]
             ELSE IF idx = wrapping_sub_one(message.leaf_index)
                    THEN store_raw_committed_message(
                             update_latest_leaf_index(d, message.leaf_index), message)
                    ELSE store_raw_committed_message(d, message)
      ELSE store_raw_committed_message(
               update_latest_leaf_index(d, message.leaf_index), message)

\* --------------------------------------------------------- core integrity
store_core(d, name, core) == [d EXCEPT !.core_integrity[name] = to_string(core)]

\* the stored json, NoJson for None
retrieve_core_json(d, name) == d.core_integrity[name]

\* check_core_integrity comparing the stored and the given document as JSON
check_core_integrity_json_eq(d, name, core) ==
    IF retrieve_core_json(d, name) # NoJson
      THEN IF retrieve_core_json(d, name) = to_string(core)
             THEN [res |-> "Ok", db |-> d]
             ELSE [res |-> "Err", db |-> d]
      ELSE [res |-> "Ok", db |-> store_core(d, name, core)]

\* check_core_integrity recording the given contract set on a mismatch
check_core_integrity_overwrite(d, name, core) ==
    IF retrieve_core_json(d, name) # NoJson
      THEN IF CoreEq(from_str(retrieve_core_json(d, name)), core)
             THEN [res |-> "Ok", db |-> d]
             ELSE [res |-> "Err", db |-> store_core(d, name, core)]
      ELSE [res |-> "Ok", db |-> store_core(d, name, core)]

check_core_integrity(d, name, core) ==
    IF retrieve_core_json(d, name) # NoJson
      THEN IF CoreEq(from_str(retrieve_core_json(d, name)), core)
             THEN [res |-> "Ok", db |-> d]
             ELSE [res |-> "Err", db |-> d]
      ELSE [res |-> "Ok", db |-> store_core(d, name, core)]

\* ================================================================= indexers
Blocks == 0..MaxBlock
TxIndexes == {0, 1}

\* an Update log with its meta; new_root tells the updates of one log apart
UpdateEvents(n) ==
    [block_number : Blocks, transaction_index : TxIndexes,
     signature_ok : BOOLEAN, new_root : {n}]

\* a Dispatch log; message tells the messages of one log apart
DispatchEvents(n) ==
    [block_number : Blocks, leaf_index : LeafIndexes, message : {n}]

\* the logs of a contract, in the order the node delivers them
RECURSIVE UpdateLogs(_)
UpdateLogs(n) ==
    IF n = 0 THEN {<<>>}
    ELSE {Append(l, e) : l \in UpdateLogs(n - 1), e \in UpdateEvents(n)}

RECURSIVE DispatchLogs(_)
DispatchLogs(n) ==
    IF n = 0 THEN {<<>>}
    ELSE {Append(l, e) : l \in DispatchLogs(n - 1), e \in DispatchEvents(n)}

\* filter.from_block(from).to_block(to).query(): the logs of the blocks
\* from..=to, both ends included
query(events, from_block, to_block) ==
    SelectSeq(events, LAMBDA e : from_block <= e.block_number /\ e.block_number <= to_block)

\* the comparison closure of sort_by, looking at the block number only
update_ordering_block_only(a, b) ==
    IF a.block_number < b.block_number THEN "Less"
    ELSE IF a.block_number > b.block_number THEN "Greater"
    ELSE "Equal"

\* the comparison closure of sort_by in fetch_sorted_updates
update_ordering(a, b) ==
    IF a.block_number < b.block_number THEN "Less"
    ELSE IF a.block_number > b.block_number THEN "Greater"
    ELSE IF a.transaction_index < b.transaction_index THEN "Less"
    ELSE IF a.transaction_index > b.transaction_index THEN "Greater"
    ELSE "Equal"

\* the comparison closure of sort_by in fetch_sorted_messages
dispatch_ordering(a, b) ==
    IF a.leaf_index < b.leaf_index THEN "Less"
    ELSE IF a.leaf_index > b.leaf_index THEN "Greater"
    ELSE "Equal"

Front(seq) == SubSeq(seq, 1, Len(seq) - 1)
Last(seq) == seq[Len(seq)]

\* slice::sort_by is stable: an element goes after the elements not greater
RECURSIVE insert_update(_, _)
insert_update(e, sorted) ==
    IF sorted = <<>> THEN <<e>>
    ELSE IF update_ordering(Last(sorted), e) = "Greater"
           THEN Append(insert_update(e, Front(sorted)), Last(sorted))
           ELSE Append(sorted, e)

RECURSIVE sort_updates(_)
sort_updates(events) ==
    IF events = <<>> THEN <<>>
    ELSE insert_update(Last(events), sort_updates(Front(events)))

RECURSIVE insert_dispatch(_, _)
insert_dispatch(e, sorted) ==
    IF sorted = <<>> THEN <<e>>
    ELSE IF dispatch_ordering(Last(sorted), e) = "Greater"
           THEN Append(insert_dispatch(e, Front(sorted)), Last(sorted))
           ELSE Append(sorted, e)

RECURSIVE sort_dispatches(_)
sort_dispatches(events) ==
    IF events = <<>> THEN <<>>
    ELSE insert_dispatch(Last(events), sort_dispatches(Front(events)))

\* SignedUpdateWithMeta built from an Update log: the transaction index is
\* not kept
SignedUpdateWithMeta(event) ==
    [new_root |-> event.new_root, block_number |-> event.block_number]

\* RawCommittedMessage built from a Dispatch log: the block is not kept
RawFromDispatch(event) ==
    [leaf_index |-> event.leaf_index, message |-> event.message]

MapSeq(seq, Op(_)) == [i \in 1..Len(seq) |-> Op(seq[i])]

\* Signature::try_from(..).expect(..) panics on some log of the range
SignaturePanics(events) == \E i \in 1..Len(events) : ~events[i].signature_ok

\* the indexer answering a log whose signature does not parse with an error
ethereum_fetch_sorted_updates_err_on_bad_signature(events, from_block, to_block) ==
    LET sorted == sort_updates(query(events, from_block, to_block)) IN
    IF SignaturePanics(sorted)
      THEN [res |-> "Err", returned |-> <<>>]
      ELSE [res |-> "Ok", returned |-> MapSeq(sorted, SignedUpdateWithMeta)]

\* Ethereum home and replica indexers
ethereum_fetch_sorted_updates(events, from_block, to_block) ==
    LET sorted == sort_updates(query(events, from_block, to_block)) IN
    IF SignaturePanics(sorted)
      THEN [res |-> "panic", returned |-> <<>>]
      ELSE [res |-> "Ok", returned |-> MapSeq(sorted, SignedUpdateWithMeta)]

ethereum_fetch_sorted_messages(events, from_block, to_block) ==
    [res |-> "Ok",
     returned |-> MapSeq(sort_dispatches(query(events, from_block, to_block)),
                         RawFromDispatch)]

\* Substrate: the updates of one block, in the order of the block
fetch_sorted_updates_for_block(events, block_number) ==
    MapSeq(sort_updates(query(events, block_number, block_number)), SignedUpdateWithMeta)

fetch_sorted_messages_for_block(events, block_number) ==
    MapSeq(sort_dispatches(query(events, block_number, block_number)), RawFromDispatch)

\* the blocks of `from..to`, flattened in order
RECURSIVE substrate_fetch_sorted_updates(_, _, _)
substrate_fetch_sorted_updates(events, from_block, to_block) ==
    IF from_block >= to_block THEN <<>>
    ELSE substrate_fetch_sorted_updates(events, from_block, to_block - 1)
         \o fetch_sorted_updates_for_block(events, to_block - 1)

RECURSIVE substrate_fetch_sorted_messages(_, _, _)
substrate_fetch_sorted_messages(events, from_block, to_block) ==
    IF from_block >= to_block THEN <<>>
    ELSE substrate_fetch_sorted_messages(events, from_block, to_block - 1)
         \o fetch_sorted_messages_for_block(events, to_block - 1)

\* ============================================================= DispatchWait
\* block numbers of the events the monitor sees
MonitorBlocks == 0..(MaxBlock + 1)

\* the difference of the two blocks as a signed number
signed_sub(a, b) == a - b

\* U64::saturating_sub
saturating_sub(a, b) == IF a >= b THEN a - b ELSE 0

\* DispatchWait::new: no timer running, no dispatch pending, and what the
\* two histograms have been given so far
NewDispatchWait ==
    [timers |-> 0, blocks |-> <<>>, timer_observed |-> 0, blocks_observed |-> <<>>]

handle_dispatch(w, block_number) ==
    [w EXCEPT !.timers = @ + 1,
              !.blocks = Append(@, block_number)]

\* handle_update observing the pending dispatches without draining them
handle_update_keeps_pending(w, block_number) ==
    [w EXCEPT !.timer_observed = @ + w.timers,
              !.blocks_observed =
                  @ \o [i \in 1..Len(w.blocks) |->
                           saturating_sub(block_number, w.blocks[i])]]

handle_update(w, block_number) ==
    [w EXCEPT !.timers = 0,
              !.timer_observed = @ + w.timers,
              !.blocks = <<>>,
              !.blocks_observed =
                  @ \o [i \in 1..Len(w.blocks) |->
                           saturating_sub(block_number, w.blocks[i])]]

\* ------------------------------------------------------- contract reads
RootAt(c, i) == IF i = 0 THEN ZeroRoot ELSE chain[c][i].new_root

\* Common::committed_root, as read when the tasks are spawned
committed_root(c) == RootAt(c, from[c])

\* the roots home.committed_root() can return while the tasks run
LaterCommittedRoots(c) == {RootAt(c, i) : i \in from[c]..Len(chain[c])}

Held(c) == {chain[c][i] : i \in 1..Len(chain[c])}

\* CommonEvents::signed_update_by_old_root / signed_update_by_new_root
signed_update_by_old_root(c, r) ==
    IF \E u \in Held(c) : u.previous_root = r
      THEN CHOOSE u \in Held(c) : u.previous_root = r
      ELSE NoUpdate

signed_update_by_new_root(c, r) ==
    IF \E u \in Held(c) : u.new_root = r
      THEN CHOOSE u \in Held(c) : u.new_root = r
      ELSE NoUpdate

\* ------------------------------------------------------------ task states
Task(pc, root) == [pc |-> pc, committed_root |-> root]
Unspawned == Task("unspawned", NoRoot)

NoCalls == [t \in Contracts \cup ConnectionManagers |-> <<>>]

IdleResp == [phase |-> "none", signed_failure |-> "none", calls |-> NoCalls,
             outcomes |-> <<>>]

\* the UpdateHandler: its position, the update in its hands, the result of
\* check_double_update, and for the last update it handled the committed root
\* it read and what home.update returned ("none": not called)
IdleHandler ==
    [pc |-> "unspawned", update |-> NoUpdate, res |-> OkResult,
     root_read |-> NoRoot, home_update |-> "none"]

PipelineIdle ==
    /\ chain = [c \in Contracts |-> <<>>]
    /\ from = [c \in Contracts |-> 0]
    /\ home_state = "Active"
    /\ faults = 0
    /\ csync = [c \in Contracts |-> "unspawned"]
    /\ cw = [c \in Contracts |-> Unspawned]
    /\ hs = [c \in Contracts |-> Unspawned]
    /\ chan = <<>>
    /\ handler = IdleHandler
    /\ home_update_calls = {}
    /\ wdu = [pc |-> "unspawned"]
    /\ iw = [pc |-> "unspawned"]
    /\ run_all = [pc |-> "start", arm |-> "none", result |-> "none", drained |-> {}]
    /\ resp = IdleResp

\* the components that are called on their own, before any call
IdleIndexer ==
    [phase |-> "idle", kind |-> "none", events |-> <<>>, from_block |-> 0,
     to_block |-> 0, family |-> "none", res |-> "none", returned |-> <<>>]
\* the task of a DispatchWait and its channels, before spawn: incoming_* are
\* the events waiting in the inbound channels, received_* the events recv()
\* has returned so far, outgoing_* the events sent on the outbound channels
\* so far
NoEvent == [kind |-> "none", block_number |-> 0]
IdleDispatchWaitTask ==
    [pc |-> "unspawned", event |-> NoEvent, before |-> NewDispatchWait,
     err |-> "none", dropped |-> {}, produced |-> 0,
     incoming_dispatch |-> <<>>, incoming_update |-> <<>>,
     received_dispatch |-> <<>>, received_update |-> <<>>,
     outgoing_dispatch |-> <<>>, outgoing_update |-> <<>>]

\* ========================================================= the monitor graph
\* the monitored networks; replicas[n] names the networks whose home has a
\* replica on n
Networks == {"ethereum", "moonbeam", "evmos"}
Topologies == {t \in [Networks -> SUBSET Networks] : \A n \in Networks : n \notin t[n]}
NoNetwork == "none"

\* the key of a faucet in the maps of Faucets, and a channel: the key it was
\* created for and the step that created it
Key(kind, network, replica_of) ==
    [kind |-> kind, network |-> network, replica_of |-> replica_of]
unbounded_channel(key, made_by) == [key |-> key, made_by |-> made_by]
Consumer(step, of) == [step |-> step, of |-> of]

\* before Monitor::producers: no channel; consumers pairs each receiver that
\* was handed to a task with that task; faucets are the receivers in the maps
NoGraph ==
    [pc |-> "unbuilt", done |-> {}, replicas |-> [n \in Networks |-> {}],
     created |-> {}, consumers |-> {}, faucets |-> {}]

\* the keys of the relay and process producers of every network
RelayKeys(replicas) ==
    UNION {{Key("relay", n, r) : r \in replicas[n]} : n \in Networks}
ProcessKeys(replicas) ==
    UNION {{Key("process", n, r) : r \in replicas[n]} : n \in Networks}

\* the faucets held in the maps under some keys
faucets_at(g, keys) == {ch \in g.faucets : ch.key \in keys}
Missing(g, keys) == \E k \in keys : faucets_at(g, {k}) = {}

\* a pipe that leaves the upstream faucet in the map
pipe_into_no_swap(g, keys, made_by, by) ==
    LET new == {unbounded_channel(k, made_by) : k \in keys} IN
    [g EXCEPT !.created = @ \cup new,
              !.consumers = @ \cup {<<ch, by>> : ch \in faucets_at(g, keys)},
              !.faucets = @ \cup new]

\* the faucets under keys are swapped for the faucets of new channels and
\* handed, with the new sinks, to one task
pipe_into(g, keys, made_by, by) ==
    LET new == {unbounded_channel(k, made_by) : k \in keys} IN
    [g EXCEPT !.created = @ \cup new,
              !.consumers = @ \cup {<<ch, by>> : ch \in faucets_at(g, keys)},
              !.faucets = (@ \ faucets_at(g, keys)) \cup new]

\* the same with one task per key
pipe_each(g, keys, made_by) ==
    LET new == {unbounded_channel(k, made_by) : k \in keys} IN
    [g EXCEPT !.created = @ \cup new,
              !.consumers = @ \cup {<<ch, Consumer(made_by, ch.key)>> :
                                      ch \in faucets_at(g, keys)},
              !.faucets = (@ \ faucets_at(g, keys)) \cup new]

\* a step of the build done for network n: the next step starts when it is
\* done for every network
ForEachNetwork(g, n, next) ==
    IF g.done \cup {n} = Networks
      THEN [g EXCEPT !.pc = next, !.done = {}]
      ELSE [g EXCEPT !.done = @ \cup {n}]
\* no wait_for_leaf future yet
IdleWaitForLeaf ==
    [pc |-> "none", leaf_index |-> NoLeafIndex, res |-> NoLeaf, slept |-> FALSE,
     stores |-> 0]

\* dw: the DispatchWait and the events it has handled
IdleDispatchWait == [state |-> NewDispatchWait, handled |-> <<>>]

DbIdle == db = NewDB /\ db_log = <<>>
IxIdle == ix = IdleIndexer
DwIdle == dw = IdleDispatchWait
DwcIdle == dwc = IdleDispatchWaitTask
GraphIdle == graph = NoGraph
WflIdle == wfl = IdleWaitForLeaf
UnitIdle == DbIdle /\ IxIdle /\ DwIdle /\ DwcIdle /\ GraphIdle /\ WflIdle

\* the watcher agent before it is built
AgentIdle ==
    /\ watcher_db = EmptyDB(Roots)
    /\ cdu_log = <<>>
    /\ PipelineIdle

\* ------------------------------------------------ direct calls (unit level)
CallUpdates ==
    {SignedUpdate(p, n, s) : p \in Roots, n \in Roots, s \in Signers \cup {BadSig}}

HandlerInit ==
    /\ watcher_db = EmptyDB(Roots)
    /\ cdu_log = <<>>
    /\ PipelineIdle
    /\ UnitIdle

CallCheckDoubleUpdate(u) ==
    /\ Len(cdu_log) < MaxCalls
    /\ watcher_db' = check_double_update(watcher_db, u).db
    /\ cdu_log' = Append(cdu_log,
          [arg |-> u,
           existing |-> update_by_previous_root(watcher_db, u.previous_root),
           res |-> check_double_update(watcher_db, u).res,
           stored |-> update_by_previous_root(watcher_db', u.previous_root)])
    /\ UNCHANGED <<pipeline_vars, unit_vars>>

HandlerNext == \E u \in CallUpdates : CallCheckDoubleUpdate(u)

SpecHandler == HandlerInit /\ [][HandlerNext]_vars


\* ======================================================== the watcher agent
Init ==
    /\ watcher_db = EmptyDB(ChainRoots)
    /\ cdu_log = <<>>
    /\ chain \in [Contracts -> HomeChains \cup ReplicaChains]
    /\ chain[HomeName] \in HomeChains
    /\ from \in [Contracts -> 0..MaxChainLen]
    /\ \A c \in Contracts : from[c] <= Len(chain[c])
    /\ home_state = "Active"
    /\ faults = 0
    /\ csync = [c \in Contracts |-> "unspawned"]
    /\ cw = [c \in Contracts |-> Unspawned]
    /\ hs = [c \in Contracts |-> Unspawned]
    /\ chan = <<>>
    /\ handler = IdleHandler
    /\ home_update_calls = {}
    /\ wdu = [pc |-> "unspawned"]
    /\ iw = [pc |-> "unspawned"]
    /\ run_all = [pc |-> "start", arm |-> "none", result |-> "none", drained |-> {}]
    /\ resp = IdleResp
    /\ UnitIdle

\* the tasks run_all spawned run from then on: the select! drops the
\* JoinHandles of the arms that lost, which detaches the tasks, and nothing
\* but cancel_task! stops one, not even the return of run_all
Racing == run_all.pc # "start"

CanFail == faults < MaxFaults

\* ------------------------------------------------------------ environment
\* the home contract enters the Failed state
HomeFails ==
    /\ Racing
    /\ home_state = "Active"
    /\ home_state' = "Failed"
    /\ UNCHANGED <<unit_vars, watcher_db, cdu_log, chain, from, faults, csync, cw, hs,
                   chan, handler, home_update_calls, wdu, iw, run_all, resp>>

\* a ContractSync task started by home.sync() / replica.sync() ends in error;
\* select_all(sync_tasks) resolves with the first of them
ContractSyncFails(c) ==
    /\ Racing
    /\ CanFail
    /\ \A d \in Contracts : csync[d] = "running"
    /\ csync' = [csync EXCEPT ![c] = "err"]
    /\ faults' = faults + 1
    /\ UNCHANGED <<unit_vars, watcher_db, cdu_log, chain, from, home_state, cw, hs,
                   chan, handler, home_update_calls, wdu, iw, run_all, resp>>

\* ------------------------------------------------- Watcher::run_all, start
\* spawns the sync tasks, watch_double_update and watch_home_fail
RunAllStart ==
    /\ run_all.pc = "start"
    /\ csync' = [c \in Contracts |-> "running"]
    /\ wdu' = [pc |-> "updater"]
    /\ iw' = [pc |-> "poll"]
    /\ run_all' = [run_all EXCEPT !.pc = "select"]
    /\ UNCHANGED <<unit_vars, watcher_db, cdu_log, chain, from, home_state, faults, cw,
                   hs, chan, handler, home_update_calls, resp>>

\* ------------------------------------------------ Watcher::watch_double_update
\* home.updater().await?, then the channel and the UpdateHandler
WduUpdater ==
    /\ Racing
    /\ wdu.pc = "updater"
    /\ wdu' = [pc |-> "spawn"]
    /\ handler' = [handler EXCEPT !.pc = "recv"]
    /\ UNCHANGED <<unit_vars, watcher_db, cdu_log, chain, from, home_state, faults,
                   csync, cw, hs, chan, home_update_calls, iw, run_all, resp>>

\* a task that was spawned and has neither ended nor been cancelled
Running(t) == t.pc \in {"poll", "sending"}

\* a turn of the loop over the replicas has spawned the ContractWatcher and
\* not yet the HistorySync
MidSpawn == \E c \in Replicas : cw[c].pc # "unspawned" /\ hs[c].pc = "unspawned"

\* one turn of the loop over the replicas, first half:
\* replica.committed_root().await?, then watch_tasks.write().await and the
\* ContractWatcher is spawned and put in the map; shutdown() holds that lock
\* while it cancels the watchers
WduSpawnReplica(c) ==
    /\ Racing
    /\ wdu.pc = "spawn"
    /\ c \in Replicas
    /\ ~MidSpawn
    /\ cw[c].pc = "unspawned"
    /\ run_all.pc # "shutdown_watch"
    /\ cw' = [cw EXCEPT ![c] = Task("poll", committed_root(c))]
    /\ UNCHANGED <<unit_vars, watcher_db, cdu_log, chain, from, home_state, faults,
                   csync, hs, chan, handler, home_update_calls, wdu, iw, run_all,
                   resp>>

\* second half: sync_tasks.write().await and the HistorySync is spawned and
\* put in the map; shutdown() holds that lock while it cancels the syncs
WduSpawnReplicaSync(c) ==
    /\ Racing
    /\ wdu.pc = "spawn"
    /\ c \in Replicas
    /\ cw[c].pc # "unspawned"
    /\ hs[c].pc = "unspawned"
    /\ run_all.pc # "shutdown_sync"
    /\ hs' = [hs EXCEPT ![c] = Task("poll", committed_root(c))]
    /\ UNCHANGED <<unit_vars, watcher_db, cdu_log, chain, from, home_state, faults,
                   csync, cw, chan, handler, home_update_calls, wdu, iw, run_all,
                   resp>>

\* after the loop: home.committed_root().await?, then the home's tasks
WduSpawnHome ==
    /\ Racing
    /\ wdu.pc = "spawn"
    /\ \A c \in Replicas : hs[c].pc # "unspawned"
    /\ cw' = [cw EXCEPT ![HomeName] = Task("poll", committed_root(HomeName))]
    /\ hs' = [hs EXCEPT ![HomeName] = Task("poll", committed_root(HomeName))]
    /\ wdu' = [pc |-> "await_handler"]
    /\ UNCHANGED <<unit_vars, watcher_db, cdu_log, chain, from, home_state, faults,
                   csync, chan, handler, home_update_calls, iw, run_all,
                   resp>>

\* one of the RPC reads of watch_double_update fails: the task returns Err
WduRpcFails ==
    /\ Racing
    /\ CanFail
    /\ wdu.pc \in {"updater", "spawn"}
    /\ ~MidSpawn
    /\ wdu' = [pc |-> "err"]
    /\ faults' = faults + 1
    /\ UNCHANGED <<unit_vars, watcher_db, cdu_log, chain, from, home_state, csync, cw,
                   hs, chan, handler, home_update_calls, iw, run_all, resp>>

HandlerEnded == handler.pc \in {"double", "err_signer", "err_rpc", "err_closed"}

\* cancel_task!: abort the task and await it. The await of a task that was
\* running yields until the runtime has dropped it; a task that had ended is
\* joined at once
Cancel(t) == IF Running(t) THEN [t EXCEPT !.pc = "cancelled"] ELSE t

\* watch_double_update always returning Ok(None)
double_update_res_ok_always_none == "done_none"

\* Ok(double_update_res.ok()): Some(double) when the handler returned the
\* DoubleUpdate, None when it returned an error
double_update_res_ok == IF handler.pc = "double" THEN "done_some" ELSE "done_none"

\* watch_double_update from cancel_task!(home_sync) on: it waits for a running
\* HistorySync to be dropped and returns at once otherwise
CancelledHomeSync ==
    [pc |-> IF Running(hs[HomeName]) THEN "await_home_sync" ELSE double_update_res_ok]

\* handler.await? resolved: cancel_task!(home_watcher) aborts the home's
\* ContractWatcher and waits for it; when that task had already ended the
\* function goes straight on to cancel_task!(home_sync)
WduHandlerDone ==
    /\ Racing
    /\ wdu.pc = "await_handler"
    /\ HandlerEnded
    /\ cw' = [cw EXCEPT ![HomeName] = Cancel(@)]
    /\ IF Running(cw[HomeName])
         THEN /\ wdu' = [pc |-> "await_home_watcher"]
              /\ hs' = hs
         ELSE /\ wdu' = CancelledHomeSync
              /\ hs' = [hs EXCEPT ![HomeName] = Cancel(@)]
    /\ UNCHANGED <<unit_vars, watcher_db, cdu_log, chain, from, home_state, faults,
                   csync, chan, handler, home_update_calls, iw, run_all, resp>>

\* the home's ContractWatcher is gone: cancel_task!(home_sync) aborts the
\* home's HistorySync and waits for it
WduCancelHomeSync ==
    /\ Racing
    /\ wdu.pc = "await_home_watcher"
    /\ hs' = [hs EXCEPT ![HomeName] = Cancel(@)]
    /\ wdu' = CancelledHomeSync
    /\ UNCHANGED <<unit_vars, watcher_db, cdu_log, chain, from, home_state, faults,
                   csync, cw, chan, handler, home_update_calls, iw, run_all,
                   resp>>

\* the home's HistorySync is gone: the task returns
\* Ok(double_update_res.ok())
WduReturn ==
    /\ Racing
    /\ wdu.pc = "await_home_sync"
    /\ wdu' = [pc |-> double_update_res_ok]
    /\ UNCHANGED <<unit_vars, watcher_db, cdu_log, chain, from, home_state, faults,
                   csync, cw, hs, chan, handler, home_update_calls, iw, run_all,
                   resp>>

\* ------------------------------------------------------------ the channel
\* the receiver is dropped when the UpdateHandler task ends
RxOpen == ~HandlerEnded

\* the senders: the tx of watch_double_update and its clones in the tasks
TxAlive ==
    \/ wdu.pc \in {"spawn", "await_handler", "await_home_watcher", "await_home_sync"}
    \/ \E c \in Contracts : Running(cw[c]) \/ Running(hs[c])

\* ------------------------------------------------------------ ContractWatcher
\* poll_and_send_update sending into a channel without capacity
CwPollAndSend_unbounded(c) ==
    /\ Racing
    /\ cw[c].pc = "poll"
    /\ LET update_opt == signed_update_by_old_root(c, cw[c].committed_root) IN
       /\ update_opt # NoUpdate
       /\ RxOpen
       /\ cw' = [cw EXCEPT ![c].committed_root = update_opt.new_root]
       /\ chan' = Append(chan, update_opt)
    /\ UNCHANGED <<unit_vars, watcher_db, cdu_log, chain, from, home_state, faults,
                   csync, hs, handler, home_update_calls, wdu, iw, run_all,
                   resp>>

\* poll_and_send_update finds an update: the cursor moves to its new_root,
\* then the update is sent; on a full channel the send waits for room, the
\* cursor already moved (a poll that finds none changes nothing)
CwPollAndSend(c) ==
    /\ Racing
    /\ cw[c].pc = "poll"
    /\ LET update_opt == signed_update_by_old_root(c, cw[c].committed_root) IN
       /\ update_opt # NoUpdate
       /\ RxOpen
       /\ IF Len(chan) < ChannelCapacity
            THEN /\ cw' = [cw EXCEPT ![c].committed_root = update_opt.new_root]
                 /\ chan' = Append(chan, update_opt)
            ELSE /\ cw' = [cw EXCEPT ![c] = Task("sending", update_opt.new_root)]
                 /\ chan' = chan
    /\ UNCHANGED <<unit_vars, watcher_db, cdu_log, chain, from, home_state, faults,
                   csync, hs, handler, home_update_calls, wdu, iw, run_all,
                   resp>>

\* the update a waiting send holds: the one that moved the cursor
Sending(c) == signed_update_by_new_root(c, cw[c].committed_root)

\* the channel has room again: the waiting send completes
CwSendCompletes(c) ==
    /\ Racing
    /\ cw[c].pc = "sending"
    /\ RxOpen
    /\ Len(chan) < ChannelCapacity
    /\ chan' = Append(chan, Sending(c))
    /\ cw' = [cw EXCEPT ![c].pc = "poll"]
    /\ UNCHANGED <<unit_vars, watcher_db, cdu_log, chain, from, home_state, faults,
                   csync, hs, handler, home_update_calls, wdu, iw, run_all,
                   resp>>

\* the failed send leaving the cursor where it was
CwSendFails_keeps_cursor(c) ==
    /\ Racing
    /\ cw[c].pc = "poll"
    /\ LET update_opt == signed_update_by_old_root(c, cw[c].committed_root) IN
       /\ update_opt # NoUpdate
       /\ ~RxOpen
       /\ cw' = [cw EXCEPT ![c].pc = "send_err"]
    /\ UNCHANGED <<unit_vars, watcher_db, cdu_log, chain, from, home_state, faults,
                   csync, hs, chan, handler, home_update_calls, wdu, iw,
                   run_all, resp>>

\* the same with the receiver dropped: self.tx.send(..).await? returns the
\* error after the cursor was moved
CwSendFails(c) ==
    /\ Racing
    /\ ~RxOpen
    /\ \/ /\ cw[c].pc = "poll"
          /\ LET update_opt == signed_update_by_old_root(c, cw[c].committed_root) IN
             /\ update_opt # NoUpdate
             /\ cw' = [cw EXCEPT ![c] = Task("send_err", update_opt.new_root)]
       \/ /\ cw[c].pc = "sending"
          /\ cw' = [cw EXCEPT ![c].pc = "send_err"]
    /\ UNCHANGED <<unit_vars, watcher_db, cdu_log, chain, from, home_state, faults,
                   csync, hs, chan, handler, home_update_calls, wdu, iw,
                   run_all, resp>>

\* signed_update_by_old_root fails: the `?` ends the task with the error
CwRpcFails(c) ==
    /\ Racing
    /\ CanFail
    /\ cw[c].pc = "poll"
    /\ cw' = [cw EXCEPT ![c].pc = "rpc_err"]
    /\ faults' = faults + 1
    /\ UNCHANGED <<unit_vars, watcher_db, cdu_log, chain, from, home_state, csync, hs,
                   chan, handler, home_update_calls, wdu, iw, run_all, resp>>

\* ------------------------------------------------------------ HistorySync
\* update_history finds no update with new_root = cursor: SyncingFinished
HsNoUpdate(c) ==
    /\ Racing
    /\ hs[c].pc = "poll"
    /\ signed_update_by_new_root(c, hs[c].committed_root) = NoUpdate
    /\ hs' = [hs EXCEPT ![c].pc = "finished"]
    /\ UNCHANGED <<unit_vars, watcher_db, cdu_log, chain, from, home_state, faults,
                   csync, cw, chan, handler, home_update_calls, wdu, iw,
                   run_all, resp>>

\* update_history taking the history for walked after one update
HsSend_stops_after_one(c) ==
    /\ Racing
    /\ hs[c].pc = "poll"
    /\ LET previous_update == signed_update_by_new_root(c, hs[c].committed_root) IN
       /\ previous_update # NoUpdate
       /\ RxOpen
       /\ Len(chan) < ChannelCapacity
       /\ chan' = Append(chan, previous_update)
       /\ hs' = [hs EXCEPT ![c] = Task("finished", ZeroRoot)]
    /\ UNCHANGED <<unit_vars, watcher_db, cdu_log, chain, from, home_state, faults,
                   csync, cw, handler, home_update_calls, wdu, iw, run_all,
                   resp>>

\* update_history returning Ok(()) whatever the new cursor is
HsSend_always_ok(c) ==
    /\ Racing
    /\ hs[c].pc = "poll"
    /\ LET previous_update == signed_update_by_new_root(c, hs[c].committed_root) IN
       /\ previous_update # NoUpdate
       /\ RxOpen
       /\ Len(chan) < ChannelCapacity
       /\ chan' = Append(chan, previous_update)
       /\ hs' = [hs EXCEPT ![c] = Task("poll", previous_update.previous_root)]
    /\ UNCHANGED <<unit_vars, watcher_db, cdu_log, chain, from, home_state, faults,
                   csync, cw, handler, home_update_calls, wdu, iw, run_all,
                   resp>>

\* update_history finds one: it is sent, the cursor moves to its
\* previous_root, and a zero cursor is SyncingFinished
HsSend(c) ==
    /\ Racing
    /\ hs[c].pc = "poll"
    /\ LET previous_update == signed_update_by_new_root(c, hs[c].committed_root) IN
       /\ previous_update # NoUpdate
       /\ RxOpen
       /\ Len(chan) < ChannelCapacity
       /\ chan' = Append(chan, previous_update)
       /\ hs' = [hs EXCEPT ![c] =
                   Task(IF previous_update.previous_root = ZeroRoot
                          THEN "finished" ELSE "poll",
                        previous_update.previous_root)]
    /\ UNCHANGED <<unit_vars, watcher_db, cdu_log, chain, from, home_state, faults,
                   csync, cw, handler, home_update_calls, wdu, iw, run_all,
                   resp>>

\* the same with the receiver dropped: the `?` returns before the cursor moves
HsSendFails(c) ==
    /\ Racing
    /\ hs[c].pc = "poll"
    /\ signed_update_by_new_root(c, hs[c].committed_root) # NoUpdate
    /\ ~RxOpen
    /\ hs' = [hs EXCEPT ![c].pc = "send_err"]
    /\ UNCHANGED <<unit_vars, watcher_db, cdu_log, chain, from, home_state, faults,
                   csync, cw, chan, handler, home_update_calls, wdu, iw,
                   run_all, resp>>

\* signed_update_by_new_root fails; spawn's loop breaks on any Err
HsRpcFails(c) ==
    /\ Racing
    /\ CanFail
    /\ hs[c].pc = "poll"
    /\ hs' = [hs EXCEPT ![c].pc = "rpc_err"]
    /\ faults' = faults + 1
    /\ UNCHANGED <<unit_vars, watcher_db, cdu_log, chain, from, home_state, csync, cw,
                   chan, handler, home_update_calls, wdu, iw, run_all, resp>>

\* ------------------------------------------------------ UpdateHandler::spawn
\* the tail of one loop turn: check_double_update, then loop or return
AfterCheck(u, root_read, out) ==
    LET r == check_double_update(watcher_db, u) IN
    /\ watcher_db' = r.db
    /\ handler' = IF r.res.ok
                    THEN [pc |-> "recv", update |-> NoUpdate, res |-> OkResult,
                          root_read |-> root_read, home_update |-> out]
                    ELSE [pc |-> "double", update |-> u, res |-> r.res,
                          root_read |-> root_read, home_update |-> out]

\* rx.recv() yields an update that verifies against self.updater
HandlerRecv ==
    /\ Racing
    /\ handler.pc = "recv"
    /\ chan # <<>>
    /\ VerifyIsOk(Head(chan), UpdaterAddr)
    /\ chan' = Tail(chan)
    /\ handler' = [handler EXCEPT !.pc = "committed_root", !.update = Head(chan),
                                  !.root_read = NoRoot, !.home_update = "none"]
    /\ UNCHANGED <<unit_vars, watcher_db, cdu_log, chain, from, home_state, faults,
                   csync, cw, hs, home_update_calls, wdu, iw, run_all, resp>>

\* rx.recv() yields an update that does not: ensure! returns the error
HandlerRecvBadSigner ==
    /\ Racing
    /\ handler.pc = "recv"
    /\ chan # <<>>
    /\ ~VerifyIsOk(Head(chan), UpdaterAddr)
    /\ chan' = Tail(chan)
    /\ handler' = [handler EXCEPT !.pc = "err_signer", !.update = Head(chan),
                                  !.root_read = NoRoot, !.home_update = "none"]
    /\ UNCHANGED <<unit_vars, watcher_db, cdu_log, chain, from, home_state, faults,
                   csync, cw, hs, home_update_calls, wdu, iw, run_all, resp>>

\* rx.recv() yields None: every sender is gone and the channel is empty
HandlerRecvClosed ==
    /\ Racing
    /\ handler.pc = "recv"
    /\ chan = <<>>
    /\ ~TxAlive
    /\ handler' = [handler EXCEPT !.pc = "err_closed"]
    /\ UNCHANGED <<unit_vars, watcher_db, cdu_log, chain, from, home_state, faults,
                   csync, cw, hs, chan, home_update_calls, wdu, iw, run_all,
                   resp>>

\* home.committed_root() differs from old_root: no home.update
HandlerSkipUpdate ==
    /\ Racing
    /\ handler.pc = "committed_root"
    /\ \E r \in LaterCommittedRoots(HomeName) :
          /\ handler.update.previous_root # r
          /\ AfterCheck(handler.update, r, "none")
    /\ UNCHANGED <<unit_vars, cdu_log, chain, from, home_state, faults, csync, cw, hs,
                   chan, home_update_calls, wdu, iw, run_all, resp>>

\* home.committed_root() equals old_root: go on to home.update
HandlerRootMatches ==
    /\ Racing
    /\ handler.pc = "committed_root"
    /\ \E r \in LaterCommittedRoots(HomeName) :
          /\ handler.update.previous_root = r
          /\ handler' = [handler EXCEPT !.pc = "update", !.root_read = r]
    /\ UNCHANGED <<unit_vars, watcher_db, cdu_log, chain, from, home_state, faults,
                   csync, cw, hs, chan, home_update_calls, wdu, iw, run_all,
                   resp>>

\* home.committed_root().await? fails
HandlerRpcFails ==
    /\ Racing
    /\ CanFail
    /\ handler.pc = "committed_root"
    /\ handler' = [handler EXCEPT !.pc = "err_rpc"]
    /\ faults' = faults + 1
    /\ UNCHANGED <<unit_vars, watcher_db, cdu_log, chain, from, home_state, csync, cw,
                   hs, chan, home_update_calls, wdu, iw, run_all, resp>>

\* home.update failing with the `?` of a call that must succeed
HandlerHomeUpdate_stops_on_err(out) ==
    /\ Racing
    /\ handler.pc = "update"
    /\ home_update_calls' = home_update_calls \cup {handler.update}
    /\ IF out = "Err"
         THEN /\ handler' = [handler EXCEPT !.pc = "err_rpc", !.home_update = out]
              /\ UNCHANGED watcher_db
         ELSE AfterCheck(handler.update, handler.root_read, out)
    /\ UNCHANGED <<unit_vars, cdu_log, chain, from, home_state, faults, csync, cw, hs,
                   chan, wdu, iw, run_all, resp>>

\* let _ = home.update(&update).await: whatever the outcome, go on
HandlerHomeUpdate(out) ==
    /\ Racing
    /\ handler.pc = "update"
    /\ home_update_calls' = home_update_calls \cup {handler.update}
    /\ AfterCheck(handler.update, handler.root_read, out)
    /\ UNCHANGED <<unit_vars, cdu_log, chain, from, home_state, faults, csync, cw, hs,
                   chan, wdu, iw, run_all, resp>>

\* ------------------------------------------------------ watch_home_fail
\* home.state() reads Failed: the task returns Err(BaseError::FailedHome)
IwSeesFailed ==
    /\ Racing
    /\ iw.pc = "poll"
    /\ home_state = "Failed"
    /\ iw' = [pc |-> "failed_home"]
    /\ UNCHANGED <<unit_vars, watcher_db, cdu_log, chain, from, home_state, faults,
                   csync, cw, hs, chan, handler, home_update_calls, wdu,
                   run_all, resp>>

\* home.state() fails
IwRpcFails ==
    /\ Racing
    /\ CanFail
    /\ iw.pc = "poll"
    /\ iw' = [pc |-> "rpc_err"]
    /\ faults' = faults + 1
    /\ UNCHANGED <<unit_vars, watcher_db, cdu_log, chain, from, home_state, csync, cw,
                   hs, chan, handler, home_update_calls, wdu, run_all, resp>>

\* -------------------------------------------- Watcher::run_all, the select!
Return(arm, result) ==
    [pc |-> "returned", arm |-> arm, result |-> result, drained |-> {}]

\* the tasks a map holds: those of the replicas that were spawned
Drain(tasks) == {c \in Replicas : tasks[c].pc # "unspawned"}

\* Watcher::shutdown after its first loop: sync_tasks.write().await.drain();
\* with nothing to cancel shutdown returns and run_all returns Ok(())
ShutdownSyncs(arm, syncs) ==
    IF Drain(syncs) = {}
      THEN Return(arm, "Ok")
      ELSE [pc |-> "shutdown_sync", arm |-> arm, result |-> "none",
            drained |-> Drain(syncs)]

\* Watcher::shutdown entered: watch_tasks.write().await.drain()
shutdown(arm) ==
    IF Drain(cw) = {}
      THEN ShutdownSyncs(arm, hs)
      ELSE [pc |-> "shutdown_watch", arm |-> arm, result |-> "none",
            drained |-> Drain(cw)]

\* first loop of shutdown: cancel_task!(v) aborts one of the drained
\* watchers and waits for it, the write guard on watch_tasks still held
ShutdownCancelWatcher(c) ==
    /\ run_all.pc = "shutdown_watch"
    /\ c \in run_all.drained
    /\ Running(cw[c])
    /\ cw' = [cw EXCEPT ![c] = Cancel(@)]
    /\ run_all' = [run_all EXCEPT !.drained = @ \ {c}]
    /\ UNCHANGED <<unit_vars, watcher_db, cdu_log, chain, from, home_state, faults,
                   csync, hs, chan, handler, home_update_calls, wdu, iw, resp>>

\* the aborted watcher is gone and the watchers left in the drain had ended
\* (they are joined at once): the guard on watch_tasks is released and the
\* second loop is entered
ShutdownWatchersDone ==
    /\ run_all.pc = "shutdown_watch"
    /\ \A c \in run_all.drained : ~Running(cw[c])
    /\ run_all' = ShutdownSyncs(run_all.arm, hs)
    /\ UNCHANGED <<unit_vars, watcher_db, cdu_log, chain, from, home_state, faults,
                   csync, cw, hs, chan, handler, home_update_calls, wdu, iw,
                   resp>>

\* second loop: cancel_task!(v) aborts one of the drained syncs and waits for
\* it, the write guard on sync_tasks still held
ShutdownCancelSync(c) ==
    /\ run_all.pc = "shutdown_sync"
    /\ c \in run_all.drained
    /\ Running(hs[c])
    /\ hs' = [hs EXCEPT ![c] = Cancel(@)]
    /\ run_all' = [run_all EXCEPT !.drained = @ \ {c}]
    /\ UNCHANGED <<unit_vars, watcher_db, cdu_log, chain, from, home_state, faults,
                   csync, cw, chan, handler, home_update_calls, wdu, iw, resp>>

\* the aborted sync is gone and the syncs left in the drain had ended:
\* shutdown returns and run_all returns Ok(())
ShutdownReturn ==
    /\ run_all.pc = "shutdown_sync"
    /\ \A c \in run_all.drained : ~Running(hs[c])
    /\ run_all' = Return(run_all.arm, "Ok")
    /\ UNCHANGED <<unit_vars, watcher_db, cdu_log, chain, from, home_state, faults,
                   csync, cw, hs, chan, handler, home_update_calls, wdu, iw,
                   resp>>

\* the sync arm selecting on the HistorySync tasks kept in sync_tasks as well
SelectSync_on_history_sync ==
    /\ run_all.pc = "select"
    /\ \E c \in Contracts : csync[c] = "err" \/ hs[c].pc = "finished"
    /\ run_all' = shutdown("sync")
    /\ UNCHANGED <<unit_vars, watcher_db, cdu_log, chain, from, home_state, faults,
                   csync, cw, hs, chan, handler, home_update_calls, wdu, iw,
                   resp>>

\* `_ = sync_task_unified`: some sync task completed; shutdown is entered
SelectSync ==
    /\ run_all.pc = "select"
    /\ \E c \in Contracts : csync[c] = "err"
    /\ run_all' = shutdown("sync")
    /\ UNCHANGED <<unit_vars, watcher_db, cdu_log, chain, from, home_state, faults,
                   csync, cw, hs, chan, handler, home_update_calls, wdu, iw,
                   resp>>

\* double_res?? with the task's Err
SelectDoubleErr ==
    /\ run_all.pc = "select"
    /\ wdu.pc = "err"
    /\ run_all' = Return("double", "Err")
    /\ UNCHANGED <<unit_vars, watcher_db, cdu_log, chain, from, home_state, faults,
                   csync, cw, hs, chan, handler, home_update_calls, wdu, iw,
                   resp>>

\* Some(double): go on to handle_double_update_failure
SelectDoubleSome ==
    /\ run_all.pc = "select"
    /\ wdu.pc = "done_some"
    /\ run_all' = [run_all EXCEPT !.pc = "respond_double", !.arm = "double"]
    /\ UNCHANGED <<unit_vars, watcher_db, cdu_log, chain, from, home_state, faults,
                   csync, cw, hs, chan, handler, home_update_calls, wdu, iw,
                   resp>>

\* None: shutdown is entered
SelectDoubleNone ==
    /\ run_all.pc = "select"
    /\ wdu.pc = "done_none"
    /\ run_all' = shutdown("double")
    /\ UNCHANGED <<unit_vars, watcher_db, cdu_log, chain, from, home_state, faults,
                   csync, cw, hs, chan, handler, home_update_calls, wdu, iw,
                   resp>>

\* Err(BaseError::FailedHome): go on to handle_improper_update_failure
SelectImproperFailedHome ==
    /\ run_all.pc = "select"
    /\ iw.pc = "failed_home"
    /\ run_all' = [run_all EXCEPT !.pc = "respond_improper", !.arm = "improper"]
    /\ UNCHANGED <<unit_vars, watcher_db, cdu_log, chain, from, home_state, faults,
                   csync, cw, hs, chan, handler, home_update_calls, wdu, iw,
                   resp>>

\* any other Err of the task is returned
SelectImproperErr ==
    /\ run_all.pc = "select"
    /\ iw.pc = "rpc_err"
    /\ run_all' = Return("improper", "Err")
    /\ UNCHANGED <<unit_vars, watcher_db, cdu_log, chain, from, home_state, faults,
                   csync, cw, hs, chan, handler, home_update_calls, wdu, iw,
                   resp>>

\* ------------------------------------------------------ the fraud responses
\* Watcher::create_signed_failure
create_signed_failure ==
    [home_domain |-> HomeDomain, updater |-> UpdaterAddr, signed_by |-> "watcher"]

Responding == run_all.pc \in {"respond_double", "respond_improper"}

RECURSIVE SetToSeq(_)
SetToSeq(S) ==
    IF S = {} THEN <<>>
    ELSE LET x == CHOOSE y \in S : TRUE IN <<x>> \o SetToSeq(S \ {x})

Range(seq) == {seq[i] : i \in 1..Len(seq)}

\* double_update_futs without the home's future
double_update_futs_no_home ==
    IF run_all.arm = "double" THEN SetToSeq(Replicas) ELSE <<>>

\* double_update_futs built on the improper path as well
double_update_futs_always == SetToSeq(Replicas) \o <<HomeName>>

\* handle_double_update_failure: a double_update future per replica, then the
\* home's; handle_improper_update_failure builds none
double_update_futs ==
    IF run_all.arm = "double" THEN SetToSeq(Replicas) \o <<HomeName>> ELSE <<>>

\* both: an unenroll_replica future per connection manager
unenroll_futs == SetToSeq(ConnectionManagers)

Outcomes == {"Ok", "Err"}

\* self.create_signed_failure().await
RespSign ==
    /\ Responding
    /\ resp.phase = "none"
    /\ resp' = [resp EXCEPT !.phase = "join", !.signed_failure = create_signed_failure]
    /\ UNCHANGED <<unit_vars, watcher_db, cdu_log, chain, from, home_state, faults,
                   csync, cw, hs, chan, handler, home_update_calls, wdu, iw,
                   run_all>>

\* home.updater() fails inside create_signed_failure: unwrap() panics
RespSignPanics ==
    /\ Responding
    /\ CanFail
    /\ resp.phase = "none"
    /\ run_all' = [run_all EXCEPT !.pc = "panicked", !.result = "Err"]
    /\ faults' = faults + 1
    /\ UNCHANGED <<unit_vars, watcher_db, cdu_log, chain, from, home_state, csync, cw,
                   hs, chan, handler, home_update_calls, wdu, iw, resp>>

\* one future of join_all(double_update_futs) runs to its outcome
RespDoubleUpdate(c, out) ==
    /\ Responding
    /\ resp.phase = "join"
    /\ c \in Range(double_update_futs)
    /\ resp.calls[c] = <<>>
    /\ resp' = [resp EXCEPT !.calls[c] = <<[arg |-> handler.res, out |-> out]>>]
    /\ UNCHANGED <<unit_vars, watcher_db, cdu_log, chain, from, home_state, faults,
                   csync, cw, hs, chan, handler, home_update_calls, wdu, iw,
                   run_all>>

\* one future of join_all(unenroll_futs) runs to its outcome
RespUnenroll(m, out) ==
    /\ Responding
    /\ resp.phase = "join"
    /\ m \in Range(unenroll_futs)
    /\ resp.calls[m] = <<>>
    /\ resp' = [resp EXCEPT !.calls[m] = <<[arg |-> resp.signed_failure, out |-> out]>>]
    /\ UNCHANGED <<unit_vars, watcher_db, cdu_log, chain, from, home_state, faults,
                   csync, cw, hs, chan, handler, home_update_calls, wdu, iw,
                   run_all>>

\* join_all keeping the successful outcomes only
join_all_ok_only(futs, calls) ==
    SelectSeq([i \in 1..Len(futs) |-> calls[futs[i]][1].out], LAMBDA o : o = "Ok")

\* join_all: the outcome of every future, in the order of the futures
join_all(futs, calls) == [i \in 1..Len(futs) |-> calls[futs[i]][1].out]

\* the join resolves with the double_update outcomes chained with the
\* unenroll outcomes; they are logged and run_all bails
RespReturn ==
    /\ Responding
    /\ resp.phase = "join"
    /\ \A t \in Range(double_update_futs) \cup Range(unenroll_futs) : resp.calls[t] # <<>>
    /\ resp' = [resp EXCEPT !.phase = "returned",
                  !.outcomes = join_all(double_update_futs, resp.calls)
                                 \o join_all(unenroll_futs, resp.calls)]
    /\ run_all' = [run_all EXCEPT !.pc = "returned", !.result = "Err"]
    /\ UNCHANGED <<unit_vars, watcher_db, cdu_log, chain, from, home_state, faults,
                   csync, cw, hs, chan, handler, home_update_calls, wdu, iw>>

\* ------------------------------------------------------------ specification
\* the steps of the tasks that need no failed call to happen
PipelineStep ==
    \/ RunAllStart
    \/ WduUpdater
    \/ \E c \in Replicas : WduSpawnReplica(c)
    \/ \E c \in Replicas : WduSpawnReplicaSync(c)
    \/ WduSpawnHome
    \/ WduHandlerDone
    \/ WduCancelHomeSync
    \/ WduReturn
    \/ \E c \in Contracts : CwPollAndSend(c)
    \/ \E c \in Contracts : CwSendFails(c)
    \/ \E c \in Contracts : HsNoUpdate(c)
    \/ \E c \in Contracts : HsSend(c)
    \/ \E c \in Contracts : HsSendFails(c)
    \/ HandlerRecv
    \/ HandlerRecvBadSigner
    \/ HandlerSkipUpdate
    \/ HandlerRootMatches
    \/ \E out \in Outcomes : HandlerHomeUpdate(out)
    \/ IwSeesFailed
    \/ SelectDoubleSome
    \/ SelectDoubleNone
    \/ \E c \in Replicas : ShutdownCancelWatcher(c)
    \/ ShutdownWatchersDone
    \/ \E c \in Replicas : ShutdownCancelSync(c)
    \/ ShutdownReturn
    \/ SelectImproperFailedHome
    \/ RespSign
    \/ \E c \in Contracts, out \in Outcomes : RespDoubleUpdate(c, out)
    \/ \E m \in ConnectionManagers, out \in Outcomes : RespUnenroll(m, out)
    \/ RespReturn

\* the steps that follow a failed call
AfterFailureStep ==
    \/ HandlerRecvClosed
    \/ SelectSync
    \/ SelectDoubleErr
    \/ SelectImproperErr

TaskStep == PipelineStep \/ AfterFailureStep

EnvStep ==
    \/ HomeFails
    \/ \E c \in Contracts : ContractSyncFails(c)
    \/ WduRpcFails
    \/ \E c \in Contracts : CwRpcFails(c)
    \/ \E c \in Contracts : HsRpcFails(c)
    \/ HandlerRpcFails
    \/ IwRpcFails
    \/ RespSignPanics

Next == TaskStep \/ EnvStep

Spec == Init /\ [][Next]_vars

\* every task that can take a step eventually takes one; the failures and
\* the home's change of state are under no obligation
Fairness ==
    /\ WF_vars(RunAllStart)
    /\ WF_vars(WduUpdater)
    /\ \A c \in Replicas : WF_vars(WduSpawnReplica(c))
    /\ \A c \in Replicas : WF_vars(WduSpawnReplicaSync(c))
    /\ WF_vars(WduSpawnHome)
    /\ WF_vars(WduHandlerDone)
    /\ WF_vars(WduCancelHomeSync)
    /\ WF_vars(WduReturn)
    /\ \A c \in Replicas : WF_vars(ShutdownCancelWatcher(c))
    /\ WF_vars(ShutdownWatchersDone)
    /\ \A c \in Replicas : WF_vars(ShutdownCancelSync(c))
    /\ WF_vars(ShutdownReturn)
    /\ \A c \in Contracts : WF_vars(CwPollAndSend(c))
    /\ \A c \in Contracts : WF_vars(CwSendFails(c))
    /\ \A c \in Contracts : WF_vars(HsNoUpdate(c))
    /\ \A c \in Contracts : WF_vars(HsSend(c))
    /\ \A c \in Contracts : WF_vars(HsSendFails(c))
    /\ WF_vars(HandlerRecv)
    /\ WF_vars(HandlerRecvBadSigner)
    /\ WF_vars(HandlerRecvClosed)
    /\ WF_vars(HandlerSkipUpdate \/ HandlerRootMatches)
    /\ WF_vars(\E out \in Outcomes : HandlerHomeUpdate(out))
    /\ WF_vars(IwSeesFailed)
    /\ WF_vars(SelectSync \/ SelectDoubleErr \/ SelectDoubleSome \/ SelectDoubleNone
                 \/ SelectImproperFailedHome \/ SelectImproperErr)
    /\ WF_vars(RespSign)
    /\ WF_vars(\E c \in Contracts, out \in Outcomes : RespDoubleUpdate(c, out))
    /\ WF_vars(\E m \in ConnectionManagers, out \in Outcomes : RespUnenroll(m, out))
    /\ WF_vars(RespReturn)

FairSpec == Spec /\ Fairness

\* the agent when no RPC call and no sync task fails; the home may still
\* enter the Failed state
NoFailureNext == PipelineStep \/ HomeFails

NoFailureSpec == Init /\ [][NoFailureNext]_vars

FairNoFailureSpec == NoFailureSpec /\ Fairness


\* ====================================================== NomadDB, called alone
StoredUpdates == {SignedUpdate(p, n, UpdaterAddr) : p \in Roots, n \in Roots}

\* the log entry of one call on db, with the store before and after it
DbLogged(op, arg, res, after) ==
    Append(db_log, [op |-> op, arg |-> arg, res |-> res, before |-> db, after |-> after])

CallStoreLatestUpdate(u) ==
    /\ Len(db_log) < MaxCalls
    /\ db' = store_latest_update(db, u)
    /\ db_log' = DbLogged("store_latest_update", u, "Ok", db')
    /\ UNCHANGED <<watcher_db, cdu_log, pipeline_vars, dwc, graph, wfl, ix, dw>>

\* every component as built, nothing called yet
UnitInit == AgentIdle /\ UnitIdle

DbUpdatesNext == \E u \in StoredUpdates : CallStoreLatestUpdate(u)

SpecDbUpdates == UnitInit /\ [][DbUpdatesNext]_vars

\* store_update and store_latest_update called in any order
CallStoreUpdate(u) ==
    /\ Len(db_log) < MaxCalls
    /\ db' = store_update(db, u)
    /\ db_log' = DbLogged("store_update", u, "Ok", db')
    /\ UNCHANGED <<watcher_db, cdu_log, pipeline_vars, dwc, graph, wfl, ix, dw>>

DbStoreUpdatesNext ==
    \/ \E u \in StoredUpdates : CallStoreUpdate(u)
    \/ \E u \in StoredUpdates : CallStoreLatestUpdate(u)

SpecDbStoreUpdates == UnitInit /\ [][DbStoreUpdatesNext]_vars


\* ------------------------------------------------ messages stored in order
RawCommittedMessages ==
    {RawCommittedMessage(i, bytes) : i \in LeafIndexes, bytes \in MessageBytes}

CallStoreLatestMessage(m, build) ==
    /\ Len(db_log) < MaxCalls
    /\ db' = store_latest_message(db, m, build).db
    /\ db_log' = DbLogged("store_latest_message", m,
                          store_latest_message(db, m, build).res, db')
    /\ UNCHANGED <<watcher_db, cdu_log, pipeline_vars, dwc, graph, wfl, ix, dw>>

\* update_latest_leaf_index is public: a caller can set the latest index to
\* any value, with no leaf stored and no regard to the index recorded
CallUpdateLatestLeafIndex(leaf_index) ==
    /\ Len(db_log) < MaxCalls
    /\ db' = update_latest_leaf_index(db, leaf_index)
    /\ db_log' = DbLogged("update_latest_leaf_index", [leaf_index |-> leaf_index],
                          "Ok", db')
    /\ UNCHANGED <<watcher_db, cdu_log, pipeline_vars, dwc, graph, wfl, ix, dw>>

DbLatestMessagesNext ==
    \/ \E m \in RawCommittedMessages, build \in Builds : CallStoreLatestMessage(m, build)
    \/ \E leaf_index \in LeafIndexes : CallUpdateLatestLeafIndex(leaf_index)

SpecDbLatestMessages == UnitInit /\ [][DbLatestMessagesNext]_vars

\* ------------------------------------------------- messages stored directly
CallStoreRawCommittedMessage(m) ==
    /\ Len(db_log) < MaxCalls
    /\ db' = store_raw_committed_message(db, m).db
    /\ db_log' = DbLogged("store_raw_committed_message", m,
                          store_raw_committed_message(db, m).res, db')
    /\ UNCHANGED <<watcher_db, cdu_log, pipeline_vars, dwc, graph, wfl, ix, dw>>

DbMessagesNext == \E m \in RawCommittedMessages : CallStoreRawCommittedMessage(m)

SpecDbMessages == UnitInit /\ [][DbMessagesNext]_vars

\* ------------------------------------------------------ integrity at boot
CallCheckCoreIntegrity(name, core) ==
    /\ Len(db_log) < MaxCalls
    /\ db' = check_core_integrity(db, name, core).db
    /\ db_log' = DbLogged("check_core_integrity", [name |-> name, core |-> core],
                          check_core_integrity(db, name, core).res, db')
    /\ UNCHANGED <<watcher_db, cdu_log, pipeline_vars, dwc, graph, wfl, ix, dw>>

\* store_core is public: called directly it replaces whatever is recorded
\* under the name
CallStoreCore(name, core) ==
    /\ Len(db_log) < MaxCalls
    /\ db' = store_core(db, name, core)
    /\ db_log' = DbLogged("store_core", [name |-> name, core |-> core], "Ok", db')
    /\ UNCHANGED <<watcher_db, cdu_log, pipeline_vars, dwc, graph, wfl, ix, dw>>

DbCoreNext ==
    \E name \in CoreNames, core \in CoreContracts : CallCheckCoreIntegrity(name, core)

SpecDbCore == UnitInit /\ [][DbCoreNext]_vars

\* check_core_integrity and store_core called in any order
DbStoreCoreNext ==
    \/ \E name \in CoreNames, core \in CoreContracts : CallCheckCoreIntegrity(name, core)
    \/ \E name \in CoreNames, core \in CoreContracts : CallStoreCore(name, core)

SpecDbStoreCore == UnitInit /\ [][DbStoreCoreNext]_vars

\* ====================================================== indexers, called alone
\* a chain with its logs, and the block range of one fetch
IndexerInit ==
    /\ AgentIdle
    /\ DbIdle
    /\ DwIdle
    /\ DwcIdle
    /\ GraphIdle
    /\ WflIdle
    /\ \E n \in 0..MaxEvents, from_block \in Blocks, to_block \in Blocks :
          /\ from_block <= to_block
          /\ \/ \E events \in UpdateLogs(n) :
                  ix = [IdleIndexer EXCEPT !.phase = "ready", !.kind = "update",
                            !.events = events, !.from_block = from_block,
                            !.to_block = to_block]
             \/ \E events \in DispatchLogs(n) :
                  ix = [IdleIndexer EXCEPT !.phase = "ready", !.kind = "dispatch",
                            !.events = events, !.from_block = from_block,
                            !.to_block = to_block]

Fetched(family, result) ==
    [ix EXCEPT !.phase = "fetched", !.family = family,
               !.res = result.res, !.returned = result.returned]

EthereumFetchSortedUpdates ==
    /\ ix.phase = "ready" /\ ix.kind = "update"
    /\ ix' = Fetched("ethereum",
                     ethereum_fetch_sorted_updates(ix.events, ix.from_block, ix.to_block))
    /\ UNCHANGED <<watcher_db, cdu_log, pipeline_vars, dwc, graph, wfl, db, db_log, dw>>

EthereumFetchSortedMessages ==
    /\ ix.phase = "ready" /\ ix.kind = "dispatch"
    /\ ix' = Fetched("ethereum",
                     ethereum_fetch_sorted_messages(ix.events, ix.from_block, ix.to_block))
    /\ UNCHANGED <<watcher_db, cdu_log, pipeline_vars, dwc, graph, wfl, db, db_log, dw>>

\* the query of the filter fails: `.await?`
EthereumQueryFails ==
    /\ ix.phase = "ready"
    /\ ix' = Fetched("ethereum", [res |-> "Err", returned |-> <<>>])
    /\ UNCHANGED <<watcher_db, cdu_log, pipeline_vars, dwc, graph, wfl, db, db_log, dw>>

SubstrateFetchSortedUpdates ==
    /\ ix.phase = "ready" /\ ix.kind = "update"
    /\ ix' = Fetched("substrate",
                     [res |-> "Ok",
                      returned |-> substrate_fetch_sorted_updates(
                                       ix.events, ix.from_block, ix.to_block)])
    /\ UNCHANGED <<watcher_db, cdu_log, pipeline_vars, dwc, graph, wfl, db, db_log, dw>>

SubstrateFetchSortedMessages ==
    /\ ix.phase = "ready" /\ ix.kind = "dispatch"
    /\ ix' = Fetched("substrate",
                     [res |-> "Ok",
                      returned |-> substrate_fetch_sorted_messages(
                                       ix.events, ix.from_block, ix.to_block)])
    /\ UNCHANGED <<watcher_db, cdu_log, pipeline_vars, dwc, graph, wfl, db, db_log, dw>>

\* the fetch of one of the blocks fails: `collect::<Result<Vec<_>, _>>()?`
SubstrateBlockFetchFails ==
    /\ ix.phase = "ready"
    /\ ix.from_block < ix.to_block
    /\ ix' = Fetched("substrate", [res |-> "Err", returned |-> <<>>])
    /\ UNCHANGED <<watcher_db, cdu_log, pipeline_vars, dwc, graph, wfl, db, db_log, dw>>

IndexerNext ==
    \/ EthereumFetchSortedUpdates
    \/ EthereumFetchSortedMessages
    \/ EthereumQueryFails
    \/ SubstrateFetchSortedUpdates
    \/ SubstrateFetchSortedMessages
    \/ SubstrateBlockFetchFails

SpecIndexer == IndexerInit /\ [][IndexerNext]_vars

\* ================================================= DispatchWait, events handled
\* the entry of one handled event, with the DispatchWait before and after it
DwHandled(kind, block_number, after) ==
    Append(dw.handled,
           [kind |-> kind, block_number |-> block_number,
            before |-> dw.state, after |-> after])

HandleDispatch(block_number) ==
    /\ Len(dw.handled) < MaxEvents
    /\ dw' = [state |-> handle_dispatch(dw.state, block_number),
              handled |-> DwHandled("dispatch", block_number,
                                    handle_dispatch(dw.state, block_number))]
    /\ UNCHANGED <<watcher_db, cdu_log, pipeline_vars, dwc, graph, wfl, db, db_log, ix>>

HandleUpdate(block_number) ==
    /\ Len(dw.handled) < MaxEvents
    /\ dw' = [state |-> handle_update(dw.state, block_number),
              handled |-> DwHandled("update", block_number,
                                    handle_update(dw.state, block_number))]
    /\ UNCHANGED <<watcher_db, cdu_log, pipeline_vars, dwc, graph, wfl, db, db_log, ix>>

DispatchWaitNext ==
    \E block_number \in MonitorBlocks :
        \/ HandleDispatch(block_number)
        \/ HandleUpdate(block_number)

SpecDispatchWait == UnitInit /\ [][DispatchWaitNext]_vars

\* ============================================ the watcher's tasks, spawned
\* the tasks and the UpdateHandler right after watch_double_update spawned
\* them, over histories one update longer than those of the whole agent
HistoryLen == MaxChainLen + 1

Histories ==
    {Canonical(k) : k \in 0..HistoryLen}
    \cup {EndingWith(k, SignedUpdate(k - 1, ForkRoot, UpdaterAddr)) : k \in 1..MaxChainLen}
    \cup {EndingWith(k, SignedUpdate(k - 1, k, OtherAddr)) : k \in 1..HistoryLen}

WatchTasksInit ==
    /\ watcher_db = EmptyDB(ChainRoots)
    /\ cdu_log = <<>>
    /\ chain \in [Contracts -> Histories]
    /\ chain[HomeName] \in HomeChains
    /\ from \in [Contracts -> 0..HistoryLen]
    /\ \A c \in Contracts : from[c] <= Len(chain[c])
    /\ home_state = "Active"
    /\ faults = 0
    /\ csync = [c \in Contracts |-> "running"]
    /\ cw = [c \in Contracts |-> Task("poll", committed_root(c))]
    /\ hs = [c \in Contracts |-> Task("poll", committed_root(c))]
    /\ chan = <<>>
    /\ handler = [IdleHandler EXCEPT !.pc = "recv"]
    /\ home_update_calls = {}
    /\ wdu = [pc |-> "await_handler"]
    /\ iw = [pc |-> "poll"]
    /\ run_all = [pc |-> "select", arm |-> "none", result |-> "none", drained |-> {}]
    /\ resp = IdleResp
    /\ UnitIdle

WatchTasksNext ==
    \/ \E c \in Contracts : CwPollAndSend(c)
    \/ \E c \in Contracts : CwSendFails(c)
    \/ \E c \in Contracts : HsNoUpdate(c)
    \/ \E c \in Contracts : HsSend(c)
    \/ \E c \in Contracts : HsSendFails(c)
    \/ HandlerRecv
    \/ HandlerRecvBadSigner
    \/ HandlerSkipUpdate
    \/ HandlerRootMatches
    \/ \E out \in Outcomes : HandlerHomeUpdate(out)

SpecWatchTasks == WatchTasksInit /\ [][WatchTasksNext]_vars

\* the loop of a HistorySync sleeps `interval` seconds between two calls of
\* update_history and is then run again
HistorySyncFairness ==
    \A c \in Contracts :
        /\ WF_vars(HsNoUpdate(c))
        /\ WF_vars(HsSend(c))
        /\ WF_vars(HsSendFails(c))

FairSpecWatchTasks == SpecWatchTasks /\ HistorySyncFairness

\* --------------------------------------------- the channel under a burst
\* a replica that holds more updates than the channel has room for, none of
\* them committed when the tasks were spawned; the home holds none; the
\* HistorySyncs, started from the zero root, have found nothing and finished
BurstLen == ChannelCapacity + MaxChainLen
BurstReplica == CHOOSE c \in Replicas : TRUE

BurstInit ==
    /\ watcher_db = EmptyDB(0..BurstLen)
    /\ cdu_log = <<>>
    /\ chain = [c \in Contracts |-> IF c = BurstReplica THEN Canonical(BurstLen) ELSE <<>>]
    /\ from = [c \in Contracts |-> 0]
    /\ home_state = "Active"
    /\ faults = 0
    /\ csync = [c \in Contracts |-> "running"]
    /\ cw = [c \in Contracts |-> Task("poll", committed_root(c))]
    /\ hs = [c \in Contracts |-> Task("finished", committed_root(c))]
    /\ chan = <<>>
    /\ handler = [IdleHandler EXCEPT !.pc = "recv"]
    /\ home_update_calls = {}
    /\ wdu = [pc |-> "await_handler"]
    /\ iw = [pc |-> "poll"]
    /\ run_all = [pc |-> "select", arm |-> "none", result |-> "none", drained |-> {}]
    /\ resp = IdleResp
    /\ UnitIdle

BurstNext ==
    \/ \E c \in Contracts : CwPollAndSend(c)
    \/ \E c \in Contracts : CwSendCompletes(c)
    \/ HandlerRecv
    \/ HandlerSkipUpdate
    \/ HandlerRootMatches
    \/ \E out \in Outcomes : HandlerHomeUpdate(out)

SpecBurst == BurstInit /\ [][BurstNext]_vars

\* ================================================= the monitor graph, built
GraphInit ==
    /\ AgentIdle
    /\ DbIdle /\ IxIdle /\ DwIdle /\ DwcIdle /\ WflIdle
    /\ graph \in {[NoGraph EXCEPT !.replicas = t] : t \in Topologies}

\* Monitor::producers: one channel per producer, its faucet in the maps
GraphProducers ==
    /\ graph.pc = "unbuilt"
    /\ LET keys == {Key("dispatch", n, NoNetwork) : n \in Networks}
                   \cup {Key("update", n, NoNetwork) : n \in Networks}
                   \cup RelayKeys(graph.replicas) \cup ProcessKeys(graph.replicas)
           new == {unbounded_channel(k, "Producer") : k \in keys}
       IN graph' = [graph EXCEPT !.pc = "between_dispatch", !.created = new,
                                 !.faucets = new]
    /\ UNCHANGED <<watcher_db, cdu_log, pipeline_vars, db, db_log, ix, dw, dwc, wfl>>

\* run_betweens: a BetweenEvents on every stream
CountDispatches(n) ==
    /\ graph.pc = "between_dispatch"
    /\ n \notin graph.done
    /\ graph' = ForEachNetwork(
                    pipe_each(graph, {Key("dispatch", n, NoNetwork)}, "BetweenEvents"),
                    n, "between_update")
    /\ UNCHANGED <<watcher_db, cdu_log, pipeline_vars, db, db_log, ix, dw, dwc, wfl>>

CountUpdates(n) ==
    /\ graph.pc = "between_update"
    /\ n \notin graph.done
    /\ graph' = ForEachNetwork(
                    pipe_each(graph, {Key("update", n, NoNetwork)}, "BetweenEvents"),
                    n, "between_relay")
    /\ UNCHANGED <<watcher_db, cdu_log, pipeline_vars, db, db_log, ix, dw, dwc, wfl>>

CountRelays(n) ==
    /\ graph.pc = "between_relay"
    /\ n \notin graph.done
    /\ graph' = ForEachNetwork(
                    pipe_each(graph, {Key("relay", n, r) : r \in graph.replicas[n]},
                              "BetweenEvents"),
                    n, "between_process")
    /\ UNCHANGED <<watcher_db, cdu_log, pipeline_vars, db, db_log, ix, dw, dwc, wfl>>

CountProcesses(n) ==
    /\ graph.pc = "between_process"
    /\ n \notin graph.done
    /\ graph' = ForEachNetwork(
                    pipe_each(graph, {Key("process", n, r) : r \in graph.replicas[n]},
                              "BetweenEvents"),
                    n, "dispatch_to_update")
    /\ UNCHANGED <<watcher_db, cdu_log, pipeline_vars, db, db_log, ix, dw, dwc, wfl>>

\* Domain::dispatch_to_update: the DispatchWait of n takes both pipes
DispatchToUpdate(n) ==
    /\ graph.pc = "dispatch_to_update"
    /\ n \notin graph.done
    /\ graph' = ForEachNetwork(
                    pipe_into(graph,
                              {Key("dispatch", n, NoNetwork), Key("update", n, NoNetwork)},
                              "DispatchWait", Consumer("DispatchWait", n)),
                    n, "update_to_relay")
    /\ UNCHANGED <<watcher_db, cdu_log, pipeline_vars, db, db_log, ix, dw, dwc, wfl>>

\* the relay faucets update_to_relay swaps: on every other network, the one
\* of the replica of n
RelaysOf(n) == {Key("relay", k, n) : k \in Networks \ {n}}

\* Domain::update_to_relay: the UpdateWait of n takes them and the update pipe
UpdateToRelay(n) ==
    /\ graph.pc = "update_to_relay"
    /\ n \notin graph.done
    /\ ~Missing(graph, RelaysOf(n))
    /\ graph' = ForEachNetwork(
                    pipe_into(graph, RelaysOf(n) \cup {Key("update", n, NoNetwork)},
                              "UpdateWait", Consumer("UpdateWait", n)),
                    n, "relay_to_process")
    /\ UNCHANGED <<watcher_db, cdu_log, pipeline_vars, db, db_log, ix, dw, dwc, wfl>>

\* .expect("missing relay producer"): another network has no replica of n.
\* The loop visits the other networks in the order of the HashMap; on each it
\* creates a channel and inserts its faucet in the map before it looks at
\* what the insert returned. At the panic the networks visited before have
\* their faucets swapped (the old ones are dropped with the new sinks while
\* unwinding) and the network without a replica of n holds a new faucet
UpdateToRelayPanics(n) ==
    /\ graph.pc = "update_to_relay"
    /\ n \notin graph.done
    /\ Missing(graph, RelaysOf(n))
    /\ \E missing \in {k \in RelaysOf(n) : faucets_at(graph, {k}) = {}},
          visited \in SUBSET {k \in RelaysOf(n) : faucets_at(graph, {k}) # {}} :
          LET new == {unbounded_channel(k, "nobody") : k \in visited \cup {missing}}
          IN graph' = [graph EXCEPT
                          !.pc = "panicked",
                          !.created = @ \cup new,
                          !.faucets = (@ \ faucets_at(graph, visited)) \cup new]
    /\ UNCHANGED <<watcher_db, cdu_log, pipeline_vars, db, db_log, ix, dw, dwc, wfl>>

\* Domain::relay_to_process: one RelayWait per replica of n
RelayToProcess(n) ==
    /\ graph.pc = "relay_to_process"
    /\ n \notin graph.done
    /\ LET keys == {Key("relay", n, r) : r \in graph.replicas[n]}
                   \cup {Key("process", n, r) : r \in graph.replicas[n]}
           new == {unbounded_channel(k, "RelayWait") : k \in keys}
           g == [graph EXCEPT
                    !.created = @ \cup new,
                    !.consumers = @ \cup {<<ch, Consumer("RelayWait",
                                                          <<n, ch.key.replica_of>>)>> :
                                             ch \in faucets_at(graph, keys)},
                    !.faucets = (@ \ faucets_at(graph, keys)) \cup new]
       IN graph' = ForEachNetwork(g, n, "e2e")
    /\ UNCHANGED <<watcher_db, cdu_log, pipeline_vars, db, db_log, ix, dw, dwc, wfl>>

\* Monitor::run_e2e: E2ELatency takes every process and every dispatch faucet
RunE2E ==
    /\ graph.pc = "e2e"
    /\ LET keys == {ch.key : ch \in {c \in graph.faucets :
                                        c.key.kind \in {"process", "dispatch"}}}
       IN graph' = [pipe_into(graph, keys, "E2ELatency",
                              Consumer("E2ELatency", NoNetwork))
                       EXCEPT !.pc = "terminals"]
    /\ UNCHANGED <<watcher_db, cdu_log, pipeline_vars, db, db_log, ix, dw, dwc, wfl>>

\* Monitor::run_terminals: one Terminal per faucet in the maps
RunTerminals ==
    /\ graph.pc = "terminals"
    /\ graph' = [graph EXCEPT
                    !.pc = "built",
                    !.consumers = @ \cup {<<ch, Consumer("Terminal", ch)>> :
                                             ch \in graph.faucets}]
    /\ UNCHANGED <<watcher_db, cdu_log, pipeline_vars, db, db_log, ix, dw, dwc, wfl>>

GraphNext ==
    \/ GraphProducers
    \/ \E n \in Networks : CountDispatches(n)
    \/ \E n \in Networks : CountUpdates(n)
    \/ \E n \in Networks : CountRelays(n)
    \/ \E n \in Networks : CountProcesses(n)
    \/ \E n \in Networks : DispatchToUpdate(n)
    \/ \E n \in Networks : UpdateToRelay(n)
    \/ \E n \in Networks : UpdateToRelayPanics(n)
    \/ \E n \in Networks : RelayToProcess(n)
    \/ RunE2E
    \/ RunTerminals

SpecGraph == GraphInit /\ [][GraphNext]_vars

\* ============================================================ wait_for_leaf
\* wait_for_leaf(leaf_index): the future is created and awaited
WaitForLeaf(leaf_index) ==
    /\ wfl.pc = "none"
    /\ wfl' = [wfl EXCEPT !.pc = "polling", !.leaf_index = leaf_index]
    /\ UNCHANGED <<watcher_db, cdu_log, pipeline_vars, db, db_log, ix, dw, dwc, graph>>

\* the future returning what its first read gives
WflPollFinds_first_read ==
    /\ wfl.pc = "polling"
    /\ wfl' = [wfl EXCEPT !.pc = "returned",
                          !.res = leaf_by_leaf_index(db, wfl.leaf_index)]
    /\ UNCHANGED <<watcher_db, cdu_log, pipeline_vars, db, db_log, ix, dw, dwc, graph>>

\* one turn of the loop that reads Some(leaf): return Ok(leaf)
WflPollFinds ==
    /\ wfl.pc = "polling"
    /\ leaf_by_leaf_index(db, wfl.leaf_index) # NoLeaf
    /\ wfl' = [wfl EXCEPT !.pc = "returned",
                          !.res = leaf_by_leaf_index(db, wfl.leaf_index)]
    /\ UNCHANGED <<watcher_db, cdu_log, pipeline_vars, db, db_log, ix, dw, dwc, graph>>

\* one turn that reads None: sleep 100 ms, then loop (slept tells that the
\* future has done so at least once)
WflPollSleeps ==
    /\ wfl.pc = "polling"
    /\ leaf_by_leaf_index(db, wfl.leaf_index) = NoLeaf
    /\ wfl' = [wfl EXCEPT !.slept = TRUE]
    /\ UNCHANGED <<watcher_db, cdu_log, pipeline_vars, db, db_log, ix, dw, dwc, graph>>

\* the read fails: the `?` returns the DbError
WflReadFails ==
    /\ wfl.pc = "polling"
    /\ wfl' = [wfl EXCEPT !.pc = "err"]
    /\ UNCHANGED <<watcher_db, cdu_log, pipeline_vars, db, db_log, ix, dw, dwc, graph>>

\* messages are stored by the indexer while the future polls (stores counts
\* them, up to MaxCalls)
WaitForLeafStore(m) ==
    /\ wfl.stores < MaxCalls
    /\ db' = store_raw_committed_message(db, m).db
    /\ wfl' = [wfl EXCEPT !.stores = @ + 1]
    /\ UNCHANGED <<watcher_db, cdu_log, pipeline_vars, db_log, dwc, graph, ix, dw>>

WaitForLeafNext ==
    \/ \E leaf_index \in LeafIndexes : WaitForLeaf(leaf_index)
    \/ WflPollFinds
    \/ WflPollSleeps
    \/ WflReadFails
    \/ \E m \in RawCommittedMessages : WaitForLeafStore(m)

SpecWaitForLeaf == UnitInit /\ [][WaitForLeafNext]_vars

\* the runtime wakes the sleeping future again
FairSpecWaitForLeaf == SpecWaitForLeaf /\ WF_vars(WflPollFinds)

\* ==================================================== DispatchWait, its task
\* the ends of the four channels that are not held by the DispatchWait
ChannelEnds ==
    {"dispatch_producer", "update_producer", "dispatch_faucet", "update_faucet"}

DispatchWaitTaskInit ==
    /\ AgentIdle
    /\ DbIdle /\ IxIdle /\ DwIdle /\ GraphIdle /\ WflIdle
    /\ dwc = [IdleDispatchWaitTask EXCEPT !.pc = "select"]

\* the producers of the previous step send events
ProducerSendsDispatch(block_number) ==
    /\ "dispatch_producer" \notin dwc.dropped
    /\ dwc.produced < MaxEvents
    /\ dwc' = [dwc EXCEPT !.incoming_dispatch = Append(@, block_number),
                          !.produced = @ + 1]
    /\ UNCHANGED <<watcher_db, cdu_log, pipeline_vars, db, db_log, ix, dw, graph, wfl>>

ProducerSendsUpdate(block_number) ==
    /\ "update_producer" \notin dwc.dropped
    /\ dwc.produced < MaxEvents
    /\ dwc' = [dwc EXCEPT !.incoming_update = Append(@, block_number),
                          !.produced = @ + 1]
    /\ UNCHANGED <<watcher_db, cdu_log, pipeline_vars, db, db_log, ix, dw, graph, wfl>>

\* the other end of one of the channels is dropped
ChannelEndDropped(end) ==
    /\ end \notin dwc.dropped
    /\ Cardinality(dwc.dropped) < MaxFaults
    /\ dwc' = [dwc EXCEPT !.dropped = @ \cup {end}]
    /\ UNCHANGED <<watcher_db, cdu_log, pipeline_vars, db, db_log, ix, dw, graph, wfl>>

\* bail_task_if!: the task returns (self, err)
Bailed(err) == [dwc EXCEPT !.pc = "bailed", !.err = err]

\* the dispatch branch observing before it sends, whatever the send returns
DwRecvDispatch_observe_first ==
    /\ dwc.pc = "select"
    /\ dwc.incoming_dispatch # <<>>
    /\ LET block_number == Head(dwc.incoming_dispatch)
           taken == [dwc EXCEPT !.incoming_dispatch = Tail(@),
                                !.received_dispatch = Append(@, block_number),
                                !.event = [kind |-> "dispatch",
                                           block_number |-> block_number],
                                !.before = dw.state]
       IN /\ dw' = [state |-> handle_dispatch(dw.state, block_number),
                    handled |-> DwHandled("dispatch", block_number,
                                          handle_dispatch(dw.state, block_number))]
          /\ IF "dispatch_faucet" \in dwc.dropped
               THEN dwc' = [taken EXCEPT !.pc = "bailed",
                                         !.err = "outbound dispatch broke"]
               ELSE dwc' = [taken EXCEPT !.outgoing_dispatch = Append(@, block_number)]
    /\ UNCHANGED <<watcher_db, cdu_log, pipeline_vars, db, db_log, ix, graph, wfl>>

\* select!, first branch: a dispatch is ready; it is sent on, or the task bails
DwRecvDispatch ==
    /\ dwc.pc = "select"
    /\ dwc.incoming_dispatch # <<>>
    /\ LET block_number == Head(dwc.incoming_dispatch)
           taken == [dwc EXCEPT !.incoming_dispatch = Tail(@),
                                !.received_dispatch = Append(@, block_number),
                                !.event = [kind |-> "dispatch",
                                           block_number |-> block_number],
                                !.before = dw.state]
       IN IF "dispatch_faucet" \in dwc.dropped
            THEN dwc' = [taken EXCEPT !.pc = "bailed",
                                      !.err = "outbound dispatch broke"]
            ELSE dwc' = [taken EXCEPT !.pc = "forwarded",
                                      !.outgoing_dispatch = Append(@, block_number)]
    /\ UNCHANGED <<watcher_db, cdu_log, pipeline_vars, db, db_log, ix, dw, graph, wfl>>

\* first branch: the inbound dispatch channel is closed and empty
DwRecvDispatchNone ==
    /\ dwc.pc = "select"
    /\ dwc.incoming_dispatch = <<>>
    /\ "dispatch_producer" \in dwc.dropped
    /\ dwc' = Bailed("inbound dispatch broke")
    /\ UNCHANGED <<watcher_db, cdu_log, pipeline_vars, db, db_log, ix, dw, graph, wfl>>

\* biased: the second branch is polled when the first one is pending
DispatchPending ==
    dwc.incoming_dispatch = <<>> /\ "dispatch_producer" \notin dwc.dropped

\* select! without `biased`: the update branch taken whatever the first holds
DwRecvUpdate_unbiased ==
    /\ dwc.pc = "select"
    /\ dwc.incoming_update # <<>>
    /\ LET block_number == Head(dwc.incoming_update)
           taken == [dwc EXCEPT !.incoming_update = Tail(@),
                                !.received_update = Append(@, block_number),
                                !.event = [kind |-> "update",
                                           block_number |-> block_number],
                                !.before = dw.state]
       IN IF "update_faucet" \in dwc.dropped
            THEN dwc' = [taken EXCEPT !.pc = "bailed",
                                      !.err = "outbound update broke"]
            ELSE dwc' = [taken EXCEPT !.pc = "forwarded",
                                      !.outgoing_update = Append(@, block_number)]
    /\ UNCHANGED <<watcher_db, cdu_log, pipeline_vars, db, db_log, ix, dw, graph, wfl>>

\* the update branch sending the update on twice
DwRecvUpdate_sends_twice ==
    /\ dwc.pc = "select"
    /\ DispatchPending
    /\ dwc.incoming_update # <<>>
    /\ LET block_number == Head(dwc.incoming_update)
           taken == [dwc EXCEPT !.incoming_update = Tail(@),
                                !.received_update = Append(@, block_number),
                                !.event = [kind |-> "update",
                                           block_number |-> block_number],
                                !.before = dw.state]
       IN IF "update_faucet" \in dwc.dropped
            THEN dwc' = [taken EXCEPT !.pc = "bailed",
                                      !.err = "outbound update broke"]
            ELSE dwc' = [taken EXCEPT !.pc = "forwarded",
                                      !.outgoing_update =
                                          Append(Append(@, block_number),
                                                 block_number)]
    /\ UNCHANGED <<watcher_db, cdu_log, pipeline_vars, db, db_log, ix, dw, graph, wfl>>

\* second branch: an update is ready; it is sent on, or the task bails
DwRecvUpdate ==
    /\ dwc.pc = "select"
    /\ DispatchPending
    /\ dwc.incoming_update # <<>>
    /\ LET block_number == Head(dwc.incoming_update)
           taken == [dwc EXCEPT !.incoming_update = Tail(@),
                                !.received_update = Append(@, block_number),
                                !.event = [kind |-> "update",
                                           block_number |-> block_number],
                                !.before = dw.state]
       IN IF "update_faucet" \in dwc.dropped
            THEN dwc' = [taken EXCEPT !.pc = "bailed",
                                      !.err = "outbound update broke"]
            ELSE dwc' = [taken EXCEPT !.pc = "forwarded",
                                      !.outgoing_update = Append(@, block_number)]
    /\ UNCHANGED <<watcher_db, cdu_log, pipeline_vars, db, db_log, ix, dw, graph, wfl>>

DwRecvUpdateNone ==
    /\ dwc.pc = "select"
    /\ DispatchPending
    /\ dwc.incoming_update = <<>>
    /\ "update_producer" \in dwc.dropped
    /\ dwc' = Bailed("inbound update broke")
    /\ UNCHANGED <<watcher_db, cdu_log, pipeline_vars, db, db_log, ix, dw, graph, wfl>>

\* the local observation of the event that was sent on
DwObserve ==
    /\ dwc.pc = "forwarded"
    /\ LET after == IF dwc.event.kind = "dispatch"
                      THEN handle_dispatch(dw.state, dwc.event.block_number)
                      ELSE handle_update(dw.state, dwc.event.block_number)
       IN dw' = [state |-> after,
                 handled |-> DwHandled(dwc.event.kind, dwc.event.block_number, after)]
    /\ dwc' = [dwc EXCEPT !.pc = "select"]
    /\ UNCHANGED <<watcher_db, cdu_log, pipeline_vars, db, db_log, ix, graph, wfl>>

DispatchWaitTaskNext ==
    \/ \E block_number \in MonitorBlocks : ProducerSendsDispatch(block_number)
    \/ \E block_number \in MonitorBlocks : ProducerSendsUpdate(block_number)
    \/ \E end \in ChannelEnds : ChannelEndDropped(end)
    \/ DwRecvDispatch
    \/ DwRecvDispatchNone
    \/ DwRecvUpdate
    \/ DwRecvUpdateNone
    \/ DwObserve

SpecDispatchWaitTask == DispatchWaitTaskInit /\ [][DispatchWaitTaskNext]_vars

\* ================================================================== claims
SameSigner(a, b) == ~RecoverIsErr(a) /\ ~RecoverIsErr(b) /\ Recover(a) = Recover(b)

Conflicting(a, b) ==
    /\ a.previous_root = b.previous_root
    /\ a.new_root # b.new_root
    /\ SameSigner(a, b)

\* a pair of direct calls, the earlier on an empty slot, with conflicting updates
C1_Case(i, j) ==
    /\ i < j
    /\ cdu_log[i].existing = NoUpdate
    /\ Conflicting(cdu_log[i].arg, cdu_log[j].arg)

\* C1: of two conflicting updates by one signer, the first check_double_update
\* call (on an empty slot) returns Ok and stores its update, and the later
\* call returns DoubleUpdate(stored, arrived), in that order
C1_DoubleUpdateOnSecond ==
    \A i, j \in 1..Len(cdu_log) :
        C1_Case(i, j) =>
            /\ cdu_log[i].res = OkResult
            /\ cdu_log[i].stored = cdu_log[i].arg
            /\ cdu_log[j].res = DoubleUpdate(cdu_log[i].arg, cdu_log[j].arg)

\* the conflicting call comes after an unrelated call in between
C1_Witness ==
    /\ Len(cdu_log) = 3
    /\ C1_Case(1, 3)
    /\ cdu_log[2].arg.previous_root # cdu_log[1].arg.previous_root
    /\ ~cdu_log[3].res.ok

\* a direct call that finds a stored update with another signer, or with a
\* signature of either that does not recover
C2_Case(j) ==
    /\ cdu_log[j].existing # NoUpdate
    /\ ~SameSigner(cdu_log[j].existing, cdu_log[j].arg)

\* C2: check_double_update returns Ok and leaves the stored update alone when
\* the stored update has another signer or either signature does not recover
C2_OkOnOtherSigner ==
    \A j \in 1..Len(cdu_log) :
        C2_Case(j) =>
            /\ cdu_log[j].res = OkResult
            /\ cdu_log[j].stored = cdu_log[j].existing

\* both kinds of the case, with different new roots
C2_Witness ==
    /\ Len(cdu_log) = 3
    /\ C2_Case(2) /\ C2_Case(3)
    /\ cdu_log[2].arg.new_root # cdu_log[2].existing.new_root
    /\ cdu_log[3].arg.new_root # cdu_log[3].existing.new_root
    /\ ~RecoverIsErr(cdu_log[2].existing) /\ ~RecoverIsErr(cdu_log[2].arg)
    /\ RecoverIsErr(cdu_log[3].arg)

\* ---------------------------------------------------------------- C3
\* the home holds P->N and a replica holds P->N', N # N', both by the updater
HomeReplicaConflict ==
    \E c \in Replicas : \E a \in Held(HomeName), b \in Held(c) :
        /\ Conflicting(a, b)
        /\ VerifyIsOk(a, UpdaterAddr)
        /\ VerifyIsOk(b, UpdaterAddr)

\* a root that only an update signed with another key leads to
ForgedRoot == ForkRoot + 1

\* the replica holds a second update from a root of the canonical chain, and
\* possibly after it an update signed with another key
ConflictChains ==
    {EndingWith(k, SignedUpdate(k - 1, ForkRoot, UpdaterAddr)) : k \in 1..MaxChainLen}
    \cup {Append(EndingWith(k, SignedUpdate(k - 1, ForkRoot, UpdaterAddr)),
                 SignedUpdate(ForkRoot, ForgedRoot, OtherAddr)) : k \in 1..MaxChainLen}

\* the agent before it is built, on a deployment with a conflict between the
\* home and a replica
ConflictInit ==
    /\ watcher_db = EmptyDB(0..ForgedRoot)
    /\ cdu_log = <<>>
    /\ chain \in [Contracts -> HomeChains \cup ConflictChains]
    /\ chain[HomeName] \in HomeChains
    /\ \A c \in Replicas : chain[c] \in ConflictChains
    /\ from \in [Contracts -> 0..(MaxChainLen + 1)]
    /\ \A c \in Contracts : from[c] <= Len(chain[c])
    /\ HomeReplicaConflict
    /\ home_state = "Active"
    /\ faults = 0
    /\ csync = [c \in Contracts |-> "unspawned"]
    /\ cw = [c \in Contracts |-> Unspawned]
    /\ hs = [c \in Contracts |-> Unspawned]
    /\ chan = <<>>
    /\ handler = IdleHandler
    /\ home_update_calls = {}
    /\ wdu = [pc |-> "unspawned"]
    /\ iw = [pc |-> "unspawned"]
    /\ run_all = [pc |-> "start", arm |-> "none", result |-> "none", drained |-> {}]
    /\ resp = IdleResp
    /\ UnitIdle

\* that deployment when no RPC call and no sync task fails, fairly scheduled
SpecConflict == ConflictInit /\ [][NoFailureNext]_vars

FairSpecConflict == SpecConflict /\ Fairness

\* the handler has exited with a DoubleUpdate and run_all is in (or past)
\* handle_double_update_failure
DoubleResponseRuns ==
    /\ handler.pc = "double"
    /\ ~handler.res.ok
    /\ run_all.arm = "double"
    /\ run_all.pc = "respond_double" \/ resp.phase = "returned"

\* C3 as stated: with a conflict between home and replica and no failed call,
\* the handler eventually exits with a DoubleUpdate and run_all runs the
\* double-update response
C3_ConflictLeadsToResponse ==
    HomeReplicaConflict ~> DoubleResponseRuns

\* C3, amended: the same, provided also that the home does not enter the
\* Failed state and the handler receives no update that fails verification
C3_ConflictLeadsToResponseUnlessFailedHome ==
    HomeReplicaConflict ~>
        (DoubleResponseRuns \/ home_state = "Failed" \/ handler.pc = "err_signer")

\* the amended statement without its condition on verification: it fails
\* when the replica also holds an update signed with another key and the
\* handler receives that one before it has seen both conflicting updates
C3_ConflictLeadsToResponseUnlessFailedHomeOnly ==
    HomeReplicaConflict ~> (DoubleResponseRuns \/ home_state = "Failed")

C3_Witness ==
    /\ HomeReplicaConflict
    /\ DoubleResponseRuns
    /\ home_state = "Active"
    /\ resp.phase = "returned"

\* ---------------------------------------------------------------- C4
DoubleResponseReturned == run_all.arm = "double" /\ resp.phase = "returned"

ExpectedSignedFailure ==
    [home_domain |-> HomeDomain, updater |-> UpdaterAddr, signed_by |-> "watcher"]

OneUnenrollEach ==
    \A m \in ConnectionManagers :
        /\ Len(resp.calls[m]) = 1
        /\ resp.calls[m][1].arg = ExpectedSignedFailure

\* C4: when handle_double_update_failure(D) has returned, the home and every
\* replica got exactly one double_update(D), every connection manager exactly
\* one unenroll_replica(sf) with the same sf, and the outcomes returned number
\* replicas + 1 + connection managers
C4_DoubleResponseCalls ==
    DoubleResponseReturned =>
        /\ ~handler.res.ok
        /\ \A c \in Contracts :
              /\ Len(resp.calls[c]) = 1
              /\ resp.calls[c][1].arg = handler.res
        /\ OneUnenrollEach
        /\ Len(resp.outcomes) =
              Cardinality(Replicas) + 1 + Cardinality(ConnectionManagers)

C4_Witness ==
    /\ DoubleResponseReturned
    /\ handler.res = DoubleUpdate(handler.res.first, handler.update)
    /\ \A t \in Contracts \cup ConnectionManagers : resp.calls[t][1].out = "Ok"

\* ---------------------------------------------------------------- C5
ImproperResponseReturned == run_all.arm = "improper" /\ resp.phase = "returned"

\* C5: watch_home_fail returns FailedHome only on a Failed home, and when
\* handle_improper_update_failure has returned, every connection manager got
\* exactly one unenroll_replica(sf) with the same sf and no contract got a
\* double_update
C5_ImproperResponseCalls ==
    /\ iw.pc = "failed_home" => home_state = "Failed"
    /\ run_all.arm = "improper" /\ resp.phase # "none" => iw.pc = "failed_home"
    /\ ImproperResponseReturned =>
          /\ OneUnenrollEach
          /\ \A c \in Contracts : resp.calls[c] = <<>>
          /\ Len(resp.outcomes) = Cardinality(ConnectionManagers)

C5_Witness ==
    /\ ImproperResponseReturned
    /\ home_state = "Failed"
    /\ \E c \in Replicas : cw[c].pc = "poll"

\* ---------------------------------------------------------------- C6
AllFuts == double_update_futs \o unenroll_futs

\* C6: in either response a failed call blocks no other call (while the join
\* runs, every call not yet made can be made), and at the return every call
\* was made and every outcome, Ok or Err, is returned in the order of the calls
C6_PartialFailureContinues ==
    /\ Responding /\ resp.phase = "join" =>
          /\ \A c \in Range(double_update_futs) :
                resp.calls[c] = <<>> =>
                    ENABLED (\E out \in Outcomes : RespDoubleUpdate(c, out))
          /\ \A m \in Range(unenroll_futs) :
                resp.calls[m] = <<>> =>
                    ENABLED (\E out \in Outcomes : RespUnenroll(m, out))
    /\ resp.phase = "returned" =>
          /\ \A t \in Range(AllFuts) : Len(resp.calls[t]) = 1
          /\ Len(resp.outcomes) = Len(AllFuts)
          /\ \A i \in 1..Len(AllFuts) :
                resp.outcomes[i] = resp.calls[AllFuts[i]][1].out

\* the first call of the double-update response failed, a later one succeeded
C6_Witness ==
    /\ DoubleResponseReturned
    /\ resp.outcomes[1] = "Err"
    /\ \E i \in 2..Len(resp.outcomes) : resp.outcomes[i] = "Ok"
    /\ \E i \in 2..Len(resp.outcomes) : resp.outcomes[i] = "Err"

\* ---------------------------------------------------------------- C7
\* C7 as stated: once the handler has ended on an update that does not verify
\* against the configured updater, run_all does not return Ok, and the update
\* was neither submitted to the home nor stored
C7_BadSignerFailsRunAll ==
    handler.pc = "err_signer" /\ run_all.pc = "returned" /\ run_all.arm = "double" =>
        /\ run_all.result = "Err"
        /\ handler.update \notin home_update_calls
        /\ update_by_previous_root(watcher_db, handler.update.previous_root)
              # handler.update

\* ---------------------------------------------------------------- C8
\* C8 as stated: a ContractWatcher ended by an RPC error leads to run_all
\* returning an error
C8_WatcherErrorTripsRunAll ==
    (\E c \in Contracts : cw[c].pc = "rpc_err") ~>
        (run_all.pc = "returned" /\ run_all.result = "Err")

\* ---------------------------------------------------------------- C9
\* C9 as stated: when run_all returns through the sync arm, a sync task
\* ended with an error, run_all returns an error
C9_SyncErrorBubbles ==
    run_all.pc = "returned" /\ run_all.arm = "sync" /\ (\E c \in Contracts : csync[c] = "err") =>
        run_all.result = "Err"

\* --------------------------------------------------------------- C10
\* C10 on the double-update path: when run_all returns its error after the
\* response, no ContractWatcher or HistorySync task is still running
C10_AllCancelledAtReturn ==
    run_all.arm = "double" /\ resp.phase = "returned" /\ run_all.pc = "returned" =>
        \A c \in Contracts : cw[c].pc # "poll" /\ hs[c].pc # "poll"

\* ------------------------------------------------------------------- C11
\* the store_latest_update calls made so far
LatestUpdateCalls == {i \in 1..Len(db_log) : db_log[i].op = "store_latest_update"}

\* C11: after any sequence of store_latest_update calls, for every update U
\* that was stored, the previous-root index under U.new_root holds
\* U.previous_root and the update entry under U.previous_root holds U
C11_EveryStoredUpdateIndexed ==
    \A i \in LatestUpdateCalls :
        LET U == db_log[i].arg IN
        /\ db.prev_root[U.new_root] = U.previous_root
        /\ update_by_previous_root(db, U.previous_root) = U

\* ------------------------------------------------------------------- C14
\* the call extends the chain: no latest root yet, or the update builds on it
ExtendsLatest(e) ==
    \/ retrieve_latest_root(e.before) = NoRoot
    \/ retrieve_latest_root(e.before) = e.arg.previous_root

PerRootWritten(e) ==
    /\ update_by_previous_root(e.after, e.arg.previous_root) = e.arg
    /\ e.after.prev_root[e.arg.new_root] = e.arg.previous_root

\* C14: store_latest_update(U) changes the latest root only when no latest
\* root exists or U.previous_root equals the current latest root, and then it
\* becomes U.new_root; otherwise the latest root is left unchanged while the
\* per-root entries for U are still written
C14_LatestRootOnlyExtended ==
    \A i \in LatestUpdateCalls :
        LET e == db_log[i] IN
        /\ PerRootWritten(e)
        /\ IF ExtendsLatest(e)
             THEN retrieve_latest_root(e.after) = e.arg.new_root
             ELSE retrieve_latest_root(e.after) = retrieve_latest_root(e.before)

\* an update that does not build on the latest root was stored: the latest
\* root stayed, the per-root entries were written
C14_Witness ==
    \E i \in LatestUpdateCalls :
        LET e == db_log[i] IN
        /\ ~ExtendsLatest(e)
        /\ e.arg.new_root # retrieve_latest_root(e.before)
        /\ retrieve_latest_root(e.after) = retrieve_latest_root(e.before)
        /\ PerRootWritten(e)
        /\ db = e.after

\* ------------------------------------------------------------------- C12
LatestMessageCalls == {i \in 1..Len(db_log) : db_log[i].op = "store_latest_message"}

\* the calls so far stored the leaf indexes 0, 1, 2, ... in this order
InOrderFromZero ==
    /\ LatestMessageCalls = 1..Len(db_log)
    /\ \A i \in 1..Len(db_log) : db_log[i].arg.leaf_index = i - 1

\* the call neither extends the latest index by one nor is the first message
\* (index 0) of an empty store
OutOfOrder(e) ==
    IF retrieve_latest_leaf_index(e.before) = NoLeafIndex
      THEN e.arg.leaf_index # 0
      ELSE e.arg.leaf_index # retrieve_latest_leaf_index(e.before) + 1

C12_InOrderPart ==
    (db_log # <<>> /\ InOrderFromZero) =>
        retrieve_latest_leaf_index(db) = db_log[Len(db_log)].arg.leaf_index

C12_OutOfOrderPart ==
    \A i \in LatestMessageCalls :
        OutOfOrder(db_log[i]) =>
            retrieve_latest_leaf_index(db_log[i].after) =
            retrieve_latest_leaf_index(db_log[i].before)

\* C12: for every sequence of store_latest_message calls whose leaf_index
\* starts at 0 and increases by exactly 1, retrieve_latest_leaf_index() equals
\* the last stored index; a call whose leaf_index is not the current latest
\* index plus 1 leaves latest_leaf_index unchanged
C12_LatestLeafIndexInOrder == C12_InOrderPart /\ C12_OutOfOrderPart

\* ------------------------------------------------------------------- C13
\* C13: in every reachable state of the store, if the latest leaf index is k
\* then a leaf is stored under every index i with 0 <= i <= k
C13_LeavesUpToLatest ==
    retrieve_latest_leaf_index(db) # NoLeafIndex =>
        \A i \in 0..retrieve_latest_leaf_index(db) : leaf_by_leaf_index(db, i) # NoLeaf

\* ------------------------------------------------------------------- C17
RawMessageCalls ==
    {i \in 1..Len(db_log) : db_log[i].op = "store_raw_committed_message"}

\* the three lookups of the message of call e, on the store the call left
LookupsReturn(e) ==
    /\ message_by_leaf(e.after, leaf(e.arg)) = e.arg
    /\ message_by_leaf_index(e.after, e.arg.leaf_index) = e.arg
    /\ message_by_nonce(e.after, read_from(e.arg.message).destination,
                        read_from(e.arg.message).nonce) = e.arg

\* C17: after store_raw_committed_message(m), the lookups
\* message_by_leaf(leaf(m)), message_by_leaf_index(m.leaf_index) and
\* message_by_nonce(m.destination, m.nonce) each return m
C17_LookupsReturnStored ==
    \A i \in RawMessageCalls :
        db_log[i].res = "Ok" => LookupsReturn(db_log[i])

\* a message was stored over another one that had the same leaf index and the
\* same destination and nonce, and the lookups return the new one
C17_Witness ==
    \E i \in RawMessageCalls :
        LET e == db_log[i] IN
        /\ e.res = "Ok"
        /\ db = e.after
        /\ message_by_leaf_index(e.before, e.arg.leaf_index) \notin {NoMessage, e.arg}
        /\ message_by_nonce(e.before, read_from(e.arg.message).destination,
                            read_from(e.arg.message).nonce) \notin {NoMessage, e.arg}
        /\ LookupsReturn(e)

\* ------------------------------------------------------------------- C15
CheckCalls == {i \in 1..Len(db_log) : db_log[i].op = "check_core_integrity"}

\* check_core_integrity calls i < j on the same name, i on a store with
\* nothing recorded under it and no call on that name in between
CheckedTwice(i, j) ==
    /\ i \in CheckCalls /\ j \in CheckCalls /\ i < j
    /\ db_log[i].arg.name = db_log[j].arg.name
    /\ retrieve_core_json(db_log[i].before, db_log[i].arg.name) = NoJson
    /\ \A k \in (i + 1)..(j - 1) : db_log[k].arg.name # db_log[i].arg.name

BothSucceed(i, j) == db_log[i].res = "Ok" /\ db_log[j].res = "Ok"

\* C15: for all contract sets x and y, on a store with nothing recorded under
\* name, check_core_integrity(name, x) followed by check_core_integrity(name, y)
\* succeeds if and only if x and y are equal as JSON documents
C15_SucceedsIffJsonEqual ==
    \A i, j \in 1..Len(db_log) :
        CheckedTwice(i, j) =>
            (BothSucceed(i, j) <=>
                to_string(db_log[i].arg.core) = to_string(db_log[j].arg.core))

\* x and y agree on every field but the implementation addresses of proxies
EqualButImplementation(x, y) ==
    /\ x.updater_manager = y.updater_manager
    /\ x.home.proxy = y.home.proxy
    /\ x.home.beacon = y.home.beacon

\* C15 (amended): the two checks succeed if and only if x and y agree on
\* every field other than the implementation addresses of their proxies
C15_SucceedsIffEqualButImplementation ==
    \A i, j \in 1..Len(db_log) :
        CheckedTwice(i, j) =>
            (BothSucceed(i, j) <=>
                EqualButImplementation(db_log[i].arg.core, db_log[j].arg.core))

\* two checks of the same name succeeded with contract sets that differ in
\* the implementation of the home proxy only
C15_Witness ==
    \E i, j \in 1..Len(db_log) :
        /\ CheckedTwice(i, j)
        /\ BothSucceed(i, j)
        /\ db_log[i].arg.core # db_log[j].arg.core
        /\ EqualButImplementation(db_log[i].arg.core, db_log[j].arg.core)

\* ------------------------------------------------------------------- C16
\* the direct store_core calls on a name
StoreCoreCalls(name) ==
    {k \in 1..Len(db_log) : db_log[k].op = "store_core" /\ db_log[k].arg.name = name}

\* C16: the core-integrity record of a name is write-once: a failing
\* check_core_integrity call leaves the stored record unchanged, so a later
\* check with the originally stored contract set still succeeds
C16_WriteOnce ==
    /\ \A k \in CheckCalls :
          db_log[k].res = "Err" => db_log[k].after = db_log[k].before
    /\ \A k \in CheckCalls :
          retrieve_core_json(db_log[k].before, db_log[k].arg.name) # NoJson
              => db_log[k].after = db_log[k].before
    /\ \A i, j \in CheckCalls :
          (/\ i < j
           /\ db_log[i].arg = db_log[j].arg
           /\ retrieve_core_json(db_log[i].before, db_log[i].arg.name) = NoJson
           /\ StoreCoreCalls(db_log[i].arg.name) \cap (i..j) = {})
          => db_log[j].res = "Ok"

\* a contract set was recorded, a check with another one failed, and the
\* check with the recorded one succeeded again
C16_Witness ==
    \E i, k, j \in CheckCalls :
        /\ i < k /\ k < j
        /\ retrieve_core_json(db_log[i].before, db_log[i].arg.name) = NoJson
        /\ db_log[k].arg.name = db_log[i].arg.name
        /\ db_log[k].res = "Err"
        /\ db_log[j].arg = db_log[i].arg
        /\ db_log[j].res = "Ok"

\* ------------------------------------------------------------------- C18
\* an Ethereum fetch_sorted_updates has returned a list
UpdatesReturned ==
    /\ ix.phase = "fetched" /\ ix.kind = "update"
    /\ ix.family = "ethereum" /\ ix.res = "Ok"

\* the log an item of the returned list was built from
UpdateEventOf(item) == ix.events[item.new_root]

\* (block number, transaction index) of a before, or equal to, that of b
BlockTxLeq(a, b) ==
    \/ a.block_number < b.block_number
    \/ /\ a.block_number = b.block_number
       /\ a.transaction_index <= b.transaction_index

\* the logs the source delivered for the range
Delivered == query(ix.events, ix.from_block, ix.to_block)

EachDeliveredOnce ==
    /\ Len(ix.returned) = Len(Delivered)
    /\ \A i \in 1..Len(Delivered) :
          Cardinality({j \in 1..Len(ix.returned) :
                          ix.returned[j].new_root = Delivered[i].new_root}) = 1

AscendingBlockTx ==
    \A i, j \in 1..Len(ix.returned) :
        i < j => BlockTxLeq(UpdateEventOf(ix.returned[i]), UpdateEventOf(ix.returned[j]))

\* C18: fetch_sorted_updates returns the update events of the queried range,
\* each exactly once, in ascending order of (block number, transaction
\* index), whatever order the source delivered them in
C18_SortedByBlockAndTx == UpdatesReturned => (EachDeliveredOnce /\ AscendingBlockTx)

\* three updates were returned, the source having delivered two updates of
\* one block with the later transaction first, and a later block before them
C18_Witness ==
    /\ UpdatesReturned
    /\ Len(ix.returned) = 3
    /\ \E i, j \in 1..Len(Delivered) :
          /\ i < j
          /\ Delivered[i].block_number = Delivered[j].block_number
          /\ Delivered[i].transaction_index > Delivered[j].transaction_index
    /\ \E i, j \in 1..Len(Delivered) :
          i < j /\ Delivered[i].block_number > Delivered[j].block_number
    /\ EachDeliveredOnce
    /\ AscendingBlockTx

\* ------------------------------------------------------------------- C19
\* a fetch of either kind has returned a list
FetchReturned == ix.phase = "fetched" /\ ix.res = "Ok"

\* the positions, in the log of the chain, of the returned items
ReturnedEvents ==
    IF ix.kind = "update"
      THEN {ix.returned[j].new_root : j \in 1..Len(ix.returned)}
      ELSE {ix.returned[j].message : j \in 1..Len(ix.returned)}

\* C19: fetch_sorted_updates(from, to) and fetch_sorted_messages(from, to)
\* return exactly the events whose block b satisfies from <= b < to: events
\* at block from are included and events at block to are not, for every
\* chain family
C19_RangeExcludesTo ==
    FetchReturned =>
        ReturnedEvents =
            {i \in 1..Len(ix.events) :
                ix.from_block <= ix.events[i].block_number
                /\ ix.events[i].block_number < ix.to_block}

\* ------------------------------------------------------------------- C20
UpdatesHandled == {i \in 1..Len(dw.handled) : dw.handled[i].kind = "update"}

\* the last update handled before event i, 0 if there is none
PreviousUpdate(i) ==
    IF \E k \in UpdatesHandled : k < i
      THEN CHOOSE k \in UpdatesHandled : k < i /\ \A l \in UpdatesHandled : l < i => l <= k
      ELSE 0

\* the blocks d1..dN of the dispatches handled since the previous update
DispatchesBefore(i) ==
    [k \in 1..(i - 1 - PreviousUpdate(i)) |-> dw.handled[PreviousUpdate(i) + k].block_number]

\* what the handling of event i gave to the blocks histogram
ObservedBy(i) ==
    SubSeq(dw.handled[i].after.blocks_observed,
           Len(dw.handled[i].before.blocks_observed) + 1,
           Len(dw.handled[i].after.blocks_observed))

\* C20: after N dispatches at blocks d1..dN followed by one update at block
\* u, the blocks histogram has received exactly N observations, one with
\* value u - di for each pending dispatch, and the pending set is empty; a
\* following update with no new dispatch records nothing
C20_ObservesDifferences ==
    \A i \in UpdatesHandled :
        /\ ObservedBy(i) =
              [k \in 1..Len(DispatchesBefore(i)) |->
                  dw.handled[i].block_number - DispatchesBefore(i)[k]]
        /\ dw.handled[i].after.blocks = <<>>

\* C20 (amended): the N observations are u - di for the dispatches with
\* di <= u and 0 for the dispatches with di > u; the pending set is empty,
\* and a following update with no new dispatch records nothing
C20_ObservesSaturatedDifferences ==
    \A i \in UpdatesHandled :
        /\ ObservedBy(i) =
              [k \in 1..Len(DispatchesBefore(i)) |->
                  IF DispatchesBefore(i)[k] <= dw.handled[i].block_number
                    THEN dw.handled[i].block_number - DispatchesBefore(i)[k]
                    ELSE 0]
        /\ dw.handled[i].after.blocks = <<>>

\* a dispatch at a block after that of the update that followed it gave one
\* observation of 0, and the next update, with nothing pending, gave none
C20_Witness ==
    /\ Len(dw.handled) = 3
    /\ dw.handled[1].kind = "dispatch"
    /\ dw.handled[2].kind = "update"
    /\ dw.handled[3].kind = "update"
    /\ dw.handled[1].block_number > dw.handled[2].block_number
    /\ ObservedBy(2) = <<0>>
    /\ ObservedBy(3) = <<>>
    /\ dw.state.blocks = <<>>

\* ------------------------------------------------------------------- C21
\* the blocks of the events of one type the DispatchWait has observed
RECURSIVE BlocksOf(_, _)
BlocksOf(kind, handled) ==
    IF handled = <<>> THEN <<>>
    ELSE IF Head(handled).kind = kind
           THEN <<Head(handled).block_number>> \o BlocksOf(kind, Tail(handled))
           ELSE BlocksOf(kind, Tail(handled))

IsPrefix(a, b) == Len(a) <= Len(b) /\ SubSeq(b, 1, Len(a)) = a

OutboundBroke == dwc.pc = "bailed" /\ dwc.err \in {"outbound dispatch broke", "outbound update broke"}

\* C21: for every event DispatchWait consumes, the event is sent on the
\* outgoing channel of the same type before the local observation is made;
\* if that send fails, no local observation is made and the pending set is
\* unchanged
C21_ForwardedBeforeObserved ==
    /\ IsPrefix(BlocksOf("dispatch", dw.handled), dwc.outgoing_dispatch)
    /\ IsPrefix(BlocksOf("update", dw.handled), dwc.outgoing_update)
    /\ OutboundBroke =>
          /\ dw.state = dwc.before
          /\ Len(BlocksOf("dispatch", dw.handled)) = Len(dwc.outgoing_dispatch)
          /\ Len(BlocksOf("update", dw.handled)) = Len(dwc.outgoing_update)

\* a dispatch has been sent on and is not observed yet
C21_Witness ==
    /\ dwc.pc = "forwarded"
    /\ dwc.event.kind = "dispatch"
    /\ Len(dwc.outgoing_dispatch) = Len(BlocksOf("dispatch", dw.handled)) + 1
    /\ dw.state.blocks # <<>>

\* the send of a consumed dispatch failed with a dispatch pending: the task
\* bailed and the pending set is as before
C21_WitnessSendFails ==
    /\ OutboundBroke
    /\ dwc.event.kind = "dispatch"
    /\ dw.state.blocks # <<>>
    /\ dw.state = dwc.before

\* ------------------------------------------------------------------- C22
\* one call of update_history of the HistorySync of c that ends otherwise
\* than on an error of the read or of the send
UpdateHistoryReturns(c) ==
    /\ hs[c].pc = "poll"
    /\ hs'[c] # hs[c]
    /\ hs'[c].pc \in {"poll", "finished"}

UpdateHistoryContract(c) ==
    LET r == hs[c].committed_root
        previous_update == signed_update_by_new_root(c, r)
    IN IF previous_update # NoUpdate
         THEN /\ chan' = Append(chan, previous_update)
              /\ hs'[c].committed_root = previous_update.previous_root
              /\ hs'[c].pc = "finished" <=> previous_update.previous_root = ZeroRoot
         ELSE /\ chan' = chan
              /\ hs'[c].committed_root = r
              /\ hs'[c].pc = "finished"

\* C22: update_history with cursor r: if an update with new_root r exists it
\* is sent and the cursor moves to its previous_root, and the call returns
\* SyncingFinished exactly when that previous_root is zero and Ok otherwise;
\* if none exists nothing is sent, the cursor stays and the call returns
\* SyncingFinished
C22_UpdateHistory ==
    [][\A c \in Contracts : UpdateHistoryReturns(c) => UpdateHistoryContract(c)]_vars

\* a HistorySync that started at root 2 has sent one update, returned Ok and
\* polls again from root 1
C22_Witness ==
    \E c \in Contracts :
        /\ from[c] = HistoryLen
        /\ hs[c] = Task("poll", RootAt(c, MaxChainLen))
        /\ hs[c].committed_root # ZeroRoot

\* ------------------------------------------------------------------- C23
\* one call of poll_and_send_update of the ContractWatcher of c that changes
\* something, the call ending on a failed read left aside
PollAndSendUpdateActs(c) ==
    /\ cw[c].pc = "poll"
    /\ cw'[c] # cw[c]
    /\ cw'[c].pc \in {"poll", "send_err"}

PollAndSendUpdateContract(c) ==
    LET update_opt == signed_update_by_old_root(c, cw[c].committed_root) IN
    /\ update_opt # NoUpdate
    /\ cw'[c].committed_root = update_opt.new_root
    /\ IF cw'[c].pc = "poll" THEN chan' = Append(chan, update_opt) ELSE chan' = chan

\* a step that puts an update in the channel is a step of a task that found it
SentByATask ==
    Len(chan') > Len(chan) =>
        \E c \in Contracts :
            \/ /\ hs[c].pc = "poll"
               /\ chan' = Append(chan, signed_update_by_new_root(c, hs[c].committed_root))
               /\ hs'[c] # hs[c]
            \/ /\ cw[c].pc = "poll"
               /\ chan' = Append(chan, signed_update_by_old_root(c, cw[c].committed_root))
               /\ cw'[c] # cw[c]

\* C23: poll_and_send_update with cursor r: if the contract has an update with
\* previous_root r the cursor becomes its new_root and exactly that update is
\* sent, the cursor having advanced even when the send fails; if there is
\* none, the cursor is unchanged and nothing is sent
C23_PollAndSendUpdate ==
    [][/\ \A c \in Contracts : PollAndSendUpdateActs(c) => PollAndSendUpdateContract(c)
       /\ SentByATask]_vars

\* a ContractWatcher whose send failed, with its cursor on the new root
C23_Witness ==
    \E c \in Contracts :
        /\ cw[c].pc = "send_err"
        /\ from[c] < Len(chain[c])
        /\ cw[c].committed_root = chain[c][from[c] + 1].new_root
        /\ \E d \in Contracts : cw[d].pc = "poll" /\ cw[d].committed_root # committed_root(d)

\* ------------------------------------------------------------------- C24
\* how many updates the ContractWatcher of the replica has sent (its cursor
\* is one ahead while a send waits for room), and how many of them the
\* handler has taken
BurstSent ==
    IF cw[BurstReplica].pc = "sending"
      THEN cw[BurstReplica].committed_root - 1
      ELSE cw[BurstReplica].committed_root
BurstTaken == BurstSent - Len(chan)

\* the channel holds the updates sent and not taken, in the order of sending
InOrderOfSending ==
    /\ BurstTaken >= 0
    /\ chan = SubSeq(chain[BurstReplica], BurstTaken + 1, BurstSent)

\* the handler has every update it took, in the same order: the one in its
\* hands is the last one taken and the ones before are stored
NoneDropped ==
    /\ handler.pc # "recv" => /\ BurstTaken >= 1
                              /\ handler.update = chain[BurstReplica][BurstTaken]
    /\ \A i \in 1..BurstLen :
          (update_by_previous_root(watcher_db, i - 1) = chain[BurstReplica][i])
              <=> (i < BurstTaken \/ (i = BurstTaken /\ handler.pc = "recv"))

\* C24: the channel to the UpdateHandler never holds more than 200 undelivered
\* updates: a sender whose send would exceed the capacity waits until the
\* handler receives, and no update is dropped or reordered within one sender
\* while the handler is alive
C24_BoundedChannelInOrder ==
    /\ Len(chan) <= ChannelCapacity
    /\ cw[BurstReplica].pc = "sending" =>
          /\ Len(chan) = ChannelCapacity \/ ENABLED CwSendCompletes(BurstReplica)
          /\ Sending(BurstReplica) = chain[BurstReplica][BurstSent + 1]
    /\ RxOpen => InOrderOfSending /\ NoneDropped

\* the channel is full again after the sender had to wait for the handler
C24_Witness ==
    /\ Len(chan) = ChannelCapacity
    /\ BurstSent > ChannelCapacity
    /\ cw[BurstReplica].pc = "poll"

\* ------------------------------------------------------------------- C25
ConsumersOf(ch) == {p \in graph.consumers : p[1] = ch}

\* C25: once the graph is built (producers, BetweenEvents, DispatchWait,
\* UpdateWait, RelayWait, E2ELatency, then run_terminals) every channel
\* created in it has exactly one consumer: each faucet still held in the maps
\* is drained by exactly one Terminal, and no channel is left without a
\* receiver or with two
C25_OneConsumerPerChannel ==
    graph.pc = "built" =>
        /\ \A ch \in graph.created : Cardinality(ConsumersOf(ch)) = 1
        /\ \A ch \in graph.faucets :
              ConsumersOf(ch) = {<<ch, Consumer("Terminal", ch)>>}
        /\ \A p \in graph.consumers : p[1] \in graph.created

\* a built graph of fully connected networks: an UpdateWait took relay
\* faucets, and Terminals drain what the last steps left in the maps
C25_Witness ==
    /\ graph.pc = "built"
    /\ \A n \in Networks : graph.replicas[n] = Networks \ {n}
    /\ \E ch \in graph.faucets : ch.made_by = "UpdateWait" /\ ch.key.kind = "update"
    /\ \E ch \in graph.created :
          ch.key.kind = "relay" /\ ConsumersOf(ch) = {<<ch, Consumer("UpdateWait", ch.key.replica_of)>>}

\* ------------------------------------------------------------------- C26
LeafStored == leaf_by_leaf_index(db, wfl.leaf_index) # NoLeaf

\* the future completes with a leaf only when one is stored under its index,
\* and with that one; with none stored it completes only on a failed read
CompletesWithStoredLeaf ==
    (wfl.pc = "polling" /\ wfl'.pc # "polling") =>
        \/ /\ LeafStored
           /\ wfl'.pc = "returned"
           /\ wfl'.res = leaf_by_leaf_index(db, wfl.leaf_index)
        \/ wfl'.pc = "err"

\* C26: wait_for_leaf(i) completes if and only if a leaf is eventually stored
\* under index i, and it then returns that leaf; while no leaf is stored under
\* index i and reads succeed it keeps polling and never completes on its own
C26_WaitForLeaf ==
    /\ [][CompletesWithStoredLeaf]_vars
    /\ (wfl.pc = "polling" /\ LeafStored) ~> (wfl.pc \in {"returned", "err"})

\* the future polled in vain, the leaf was stored, and it returned the leaf
C26_Witness ==
    /\ wfl.pc = "returned"
    /\ wfl.slept
    /\ wfl.res # NoLeaf
    /\ wfl.res = leaf_by_leaf_index(db, wfl.leaf_index)

\* ------------------------------------------------------------------- C27
\* the handler compares the root it read: home.update is called exactly when
\* the update starts from it
UpdateCalledIffRootRead ==
    (handler.pc = "committed_root" /\ handler'.pc # "committed_root"
        /\ handler'.pc # "err_rpc") =>
        /\ handler'.root_read \in LaterCommittedRoots(HomeName)
        /\ handler'.pc = "update" <=> handler.update.previous_root = handler'.root_read
        /\ handler'.pc # "update" => /\ handler'.home_update = "none"
                                     /\ home_update_calls' = home_update_calls

\* whatever home.update returns, check_double_update runs on the update and
\* the handler goes on, or returns the double update it found
CheckRunsAfterUpdate ==
    handler.pc = "update" /\ handler'.pc # "update" =>
        LET r == check_double_update(watcher_db, handler.update) IN
        /\ home_update_calls' = home_update_calls \cup {handler.update}
        /\ handler'.home_update \in Outcomes
        /\ watcher_db' = r.db
        /\ handler'.pc = IF r.res.ok THEN "recv" ELSE "double"
        /\ handler'.res = r.res

\* C27: for each update u the UpdateHandler handles, home.update(u) is called
\* if and only if u.previous_root equals the home's committed root read at
\* that moment; a failure of that call never stops the handler and never
\* prevents check_double_update from running on u
C27_HomeUpdateBestEffort ==
    [][UpdateCalledIffRootRead /\ CheckRunsAfterUpdate]_vars

\* home.update failed on an update; the update was checked and stored and the
\* handler is receiving again
C27_Witness ==
    /\ handler.pc = "recv"
    /\ handler.home_update = "Err"
    /\ \E u \in home_update_calls :
          /\ u.previous_root = handler.root_read
          /\ update_by_previous_root(watcher_db, u.previous_root) = u

\* ------------------------------------------------------------------- C28
\* some key of the store holds u
Stored(u) ==
    \/ update_by_previous_root(watcher_db, u.previous_root) = u
    \/ watcher_db.prev_root[u.new_root] = u.previous_root

AllHeld == UNION {Held(c) : c \in Contracts}

NeverBothStored ==
    \A a \in AllHeld, b \in AllHeld : Conflicting(a, b) => ~(Stored(a) /\ Stored(b))

\* the step in which the handler checks the update in its hands: it sees what
\* the checks before it stored, and reports the double update or stores
SecondSeesFirst ==
    (handler.pc \in {"committed_root", "update"} /\ handler'.pc \in {"recv", "double"}) =>
        LET u == handler.update
            existing == update_by_previous_root(watcher_db, u.previous_root)
        IN IF existing # NoUpdate /\ Conflicting(existing, u)
             THEN /\ handler'.pc = "double"
                  /\ handler'.res = DoubleUpdate(existing, u)
                  /\ watcher_db' = watcher_db
             ELSE /\ handler'.pc = "recv"
                  /\ existing = NoUpdate => watcher_db' = store_update(watcher_db, u)
                  /\ existing # NoUpdate => watcher_db' = watcher_db

\* C28: when two conflicting updates are sent concurrently by different
\* watcher tasks, under every interleaving exactly one of them is stored and
\* the handler reports a DoubleUpdate for the other: the lookup and the store
\* done for one update are never interleaved with those done for another
C28_ExactlyOneStored ==
    /\ [](NeverBothStored)
    /\ [][SecondSeesFirst]_vars
    /\ [](handler.pc = "double" =>
             /\ Conflicting(handler.res.first, handler.update)
             /\ handler.res.second = handler.update
             /\ Stored(handler.res.first)
             /\ ~Stored(handler.update))

\* the home's update arrived after the replica's conflicting one: the
\* replica's is stored and the home's is reported
C28_Witness ==
    /\ handler.pc = "double"
    /\ handler.update \in Held(HomeName)
    /\ \E c \in Replicas : handler.res.first \in Held(c) \ Held(HomeName)
    /\ Stored(handler.res.first)

\* ------------------------------------------------------------------- C29
\* C29: in handle_double_update_failure no unenroll_replica call on any
\* connection manager starts before every double_update(D) call on the home
\* and the replicas has completed
C29_UnenrollAfterDoubleUpdates ==
    (run_all.arm = "double" /\ \E m \in ConnectionManagers : resp.calls[m] # <<>>) =>
        \A c \in Range(double_update_futs) : resp.calls[c] # <<>>

\* ------------------------------------------------------------------- C30
\* the agent with every arm of run_all's select!: no RPC call fails, a
\* ContractSync task may end, the home may enter the Failed state
SelectArmsNext ==
    \/ NoFailureNext
    \/ \E c \in Contracts : ContractSyncFails(c)
    \/ SelectSync

SpecSelectArms == Init /\ [][SelectArmsNext]_vars

SomeHistorySyncEnded == \E c \in Contracts : hs[c].pc = "finished"

\* what does end run_all or the UpdateHandler: a failed call, the home in the
\* Failed state, a detected double update, an update that fails verification
NothingElseHappened ==
    /\ faults = 0
    /\ home_state = "Active"
    /\ handler.pc \notin {"double", "err_signer"}

\* C30: when a HistorySync task reaches the end of history only that task
\* ends: run_all stays in its select!, and the UpdateHandler and the
\* ContractWatcher tasks keep processing updates. As long as nothing else
\* ends them, with a HistorySync ended run_all is in its select!, the
\* watch_double_update and watch_home_fail tasks it selects on have not
\* returned, the channel has not closed under the UpdateHandler and every
\* ContractWatcher that was spawned is running
C30_OnlyHistorySyncEnds ==
    (SomeHistorySyncEnded /\ NothingElseHappened) =>
        /\ run_all.pc = "select"
        /\ wdu.pc \in {"spawn", "await_handler"}
        /\ iw.pc = "poll"
        /\ ~HandlerEnded
        /\ \A c \in Contracts : cw[c].pc = "unspawned" \/ Running(cw[c])

\* every HistorySync has ended and nothing else has happened: run_all is
\* still selecting, a ContractWatcher has moved on and the handler has the
\* update it sent
C30_Witness ==
    /\ \A c \in Contracts : hs[c].pc = "finished"
    /\ NothingElseHappened
    /\ run_all.pc = "select"
    /\ \E c \in Contracts :
          /\ cw[c].pc = "poll"
          /\ cw[c].committed_root # committed_root(c)
          /\ handler.pc = "committed_root"
          /\ handler.update.new_root = cw[c].committed_root

\* ------------------------------------------------------------------- C31
\* the updates reachable from root r by repeated signed_update_by_new_root
\* lookups, newest first (n bounds the walk)
RECURSIVE HistoryFrom(_, _, _)
HistoryFrom(c, r, n) ==
    LET u == signed_update_by_new_root(c, r) IN
    IF n = 0 \/ u = NoUpdate THEN <<>>
    ELSE <<u>> \o HistoryFrom(c, u.previous_root, n - 1)

HistoryLeft(c) == HistoryFrom(c, hs[c].committed_root, HistoryLen + 1)

\* every update a HistorySync sends is the newest of the history left from its
\* cursor, and the cursor then leaves the rest of that history
SendsNewestLeft(c) ==
    (hs[c].pc = "poll" /\ hs'[c] # hs[c] /\ hs'[c].pc \in {"poll", "finished"}) =>
        LET left == HistoryFrom(c, hs[c].committed_root, HistoryLen + 1)
            after == HistoryFrom(c, hs'[c].committed_root, HistoryLen + 1)
        IN IF left = <<>>
             THEN chan' = chan /\ hs'[c].pc = "finished"
             ELSE /\ chan' = Append(chan, Head(left))
                  /\ after = Tail(left)
                  /\ hs'[c].pc = "finished" <=> Head(left).previous_root = ZeroRoot

\* C31: if the updates reachable from root r by repeated
\* signed_update_by_new_root lookups form a finite chain that ends at an update
\* with previous_root zero or at a root with no update, the HistorySync started
\* at r sends every update of that chain exactly once, from newest to oldest,
\* and then terminates (a send refused by a closed channel ends the task
\* before that)
C31_HistorySyncWalksAndEnds ==
    /\ [][\A c \in Contracts : SendsNewestLeft(c)]_vars
    /\ [](\A c \in Contracts :
             /\ hs[c].pc = "finished" => HistoryLeft(c) = <<>>
             /\ hs[c].pc = "send_err" => ~RxOpen /\ HistoryLeft(c) # <<>>)
    /\ \A c \in Contracts : (hs[c].pc = "poll") ~> (hs[c].pc \in {"finished", "send_err"})

\* a HistorySync started at the end of a history of two updates has walked
\* it to the zero root and ended, the channel still open
C31_Witness ==
    \E c \in Contracts :
        /\ from[c] = HistoryLen
        /\ Len(chain[c]) = HistoryLen
        /\ hs[c] = Task("finished", ZeroRoot)
        /\ RxOpen

\* ------------------------------------------------------------------- C32
\* the step on which the task takes an update from its inbound channel
ConsumesUpdate ==
    /\ dwc.pc = "select"
    /\ Len(dwc'.received_update) = Len(dwc.received_update) + 1

\* C32: whenever both inbound channels of DispatchWait have an event ready the
\* dispatch is consumed first: an update is consumed only at a moment when no
\* dispatch is ready on the inbound dispatch channel
C32_DispatchesFirst ==
    /\ [][ConsumesUpdate => dwc.incoming_dispatch = <<>>]_vars
    /\ [](dwc.pc = "select" /\ dwc.incoming_dispatch # <<>>
            => ENABLED DwRecvDispatch /\ ~ENABLED DwRecvUpdate)

\* a dispatch has been taken while an update that was ready is still waiting,
\* and an update had been taken before, when no dispatch was ready
C32_Witness ==
    /\ dwc.pc = "forwarded"
    /\ dwc.event.kind = "dispatch"
    /\ dwc.incoming_update # <<>>
    /\ dwc.received_update # <<>>

\* ------------------------------------------------------------------- C33
\* a is b, or b without its last element
AllButAtMostLast(a, b) == IsPrefix(a, b) /\ Len(b) <= Len(a) + 1

\* C33: DispatchWait is a faithful pipe per event type: at every moment the
\* dispatches it has sent on its outgoing dispatch channel are a prefix of the
\* dispatches it received on the inbound dispatch channel, in the same order,
\* none lost, duplicated or reordered before it, and the same for updates; the
\* one received event that may be missing is the one whose send failed
C33_FaithfulPipe ==
    /\ AllButAtMostLast(dwc.outgoing_dispatch, dwc.received_dispatch)
    /\ AllButAtMostLast(dwc.outgoing_update, dwc.received_update)
    /\ dwc.pc \in {"select", "forwarded"} =>
          /\ dwc.outgoing_dispatch = dwc.received_dispatch
          /\ dwc.outgoing_update = dwc.received_update

\* two dispatches with different blocks and an update have gone through
C33_Witness ==
    /\ Len(dwc.outgoing_dispatch) = 2
    /\ dwc.outgoing_dispatch[1] # dwc.outgoing_dispatch[2]
    /\ dwc.outgoing_update # <<>>
    /\ dwc.pc = "select"

\* ------------------------------------------------------------------- C34
\* the Ethereum indexer was asked for updates and its query delivered the logs
EthereumUpdatesDelivered ==
    /\ ix.phase = "fetched"
    /\ ix.family = "ethereum"
    /\ ix.kind = "update"

\* the logs of the chain with a block in from..to whose signature does not
\* parse; `last` is the last block of the range
BadSignaturesIn(last) ==
    {i \in 1..Len(ix.events) :
        /\ ix.from_block <= ix.events[i].block_number
        /\ ix.events[i].block_number <= last
        /\ ~ix.events[i].signature_ok}

\* C34: if any update event in the queried range carries a signature that
\* does not parse as a 65-byte signature, fetch_sorted_updates panics: it
\* returns neither the remaining updates nor an ordinary error value (and it
\* panics for no other reason)
C34_BadSignaturePanics ==
    [][EthereumFetchSortedUpdates =>
          /\ EthereumUpdatesDelivered'
          /\ BadSignaturesIn(ix.to_block - 1) # {} => ix'.res = "panic"
          /\ ix'.res = "panic" <=> BadSignaturesIn(ix.to_block) # {}
          /\ ix'.res = "panic" => ix'.returned = <<>>
          /\ ix'.res \in {"panic", "Ok"}]_vars

\* the call panicked on a range that holds a well-signed update next to the
\* one whose signature does not parse
C34_Witness ==
    /\ EthereumUpdatesDelivered
    /\ ix.res = "panic"
    /\ BadSignaturesIn(ix.to_block - 1) # {}
    /\ \E i \in 1..Len(ix.events) :
          /\ ix.events[i].signature_ok
          /\ ix.from_block <= ix.events[i].block_number
          /\ ix.events[i].block_number < ix.to_block

\* ------------------------------------------------------------------- C35
\* the calls of the log that repeat the call before them
RepeatedCalls ==
    {i \in 2..Len(db_log) :
        /\ db_log[i].op = "store_latest_update"
        /\ db_log[i - 1].op = "store_latest_update"
        /\ db_log[i].arg = db_log[i - 1].arg}

\* C35: store_latest_update is idempotent: for every update U and prior store
\* state, applying it twice leaves the update entry, the previous-root index
\* and the latest root exactly as after applying it once
C35_StoreLatestUpdateIdempotent ==
    /\ \A i \in RepeatedCalls : db_log[i].after = db_log[i - 1].after
    /\ \A u \in StoredUpdates :
          store_latest_update(store_latest_update(db, u), u) = store_latest_update(db, u)

\* an update was stored twice in a row on a store that held another latest
\* root, once building off the latest root and moving it, or once not
C35_Witness ==
    \E i \in RepeatedCalls :
        /\ db_log[i - 1].before.latest_root # NoRoot
        /\ db_log[i - 1].after # db_log[i - 1].before
        /\ db_log[i - 1].arg.previous_root = db_log[i - 1].before.latest_root
        /\ db_log[i - 1].after.latest_root = db_log[i - 1].arg.new_root

\* ------------------------------------------------------------------- C37
\* C37: after any sequence of store_update and store_latest_update calls,
\* update_by_new_root(N) returns either nothing or an update whose new_root
\* is N
C37_UpdateByNewRootHasThatRoot ==
    \A new_root \in Roots :
        \/ update_by_new_root(db, new_root) = NoUpdate
        \/ update_by_new_root(db, new_root).new_root = new_root

\* ------------------------------------------------------------------- C36
\* the calls of store_latest_message that failed on the decoding of the bytes
FailedToDecode ==
    {i \in LatestMessageCalls :
        db_log[i].res = "Err" /\ ReadFromIsErr(db_log[i].arg.message)}

\* C36: if store_latest_message fails because the message bytes cannot be
\* decoded, the store is left unchanged; in particular the latest leaf index
\* has not been advanced to the failed message's index
C36_FailedDecodeLeavesStore ==
    \A i \in FailedToDecode : db_log[i].after = db_log[i].before

\* ------------------------------------------------------------------- C39
\* the calls of store_latest_message for leaf index 0 on a store that has a
\* latest leaf index, with bytes that decode
IndexZeroOnLatest ==
    {i \in LatestMessageCalls :
        /\ db_log[i].arg.leaf_index = 0
        /\ retrieve_latest_leaf_index(db_log[i].before) # NoLeafIndex
        /\ ~ReadFromIsErr(db_log[i].arg.message)}

\* C39: store_latest_message for a message with leaf_index 0, called when a
\* latest leaf index is already recorded, completes without unsigned-integer
\* underflow or panic, leaves the latest leaf index unchanged and stores the
\* message
C39_IndexZeroStoredWithoutUnderflow ==
    \A i \in IndexZeroOnLatest :
        /\ db_log[i].res = "Ok"
        /\ retrieve_latest_leaf_index(db_log[i].after) =
           retrieve_latest_leaf_index(db_log[i].before)
        /\ message_by_leaf_index(db_log[i].after, 0) = db_log[i].arg

\* ------------------------------------------------------------------- C38
\* home.updater() failed while the failure notification was being built for
\* a double update
UpdaterFailedInResponse ==
    run_all.pc = "panicked" /\ run_all.arm = "double" /\ resp.phase = "none"

\* C38: if home.updater() fails while the failure notification is being built
\* in handle_double_update_failure, double_update(D) has nevertheless been
\* submitted to the home and to every replica
C38_DoubleUpdateSubmittedBeforeNotification ==
    UpdaterFailedInResponse =>
        \A c \in Replicas \cup {HomeName} : resp.calls[c] # <<>>

\* ------------------------------------------------------------------- C40
\* the value recorded for an update at block u and a pending dispatch at
\* block d
BlockLatency(u, d) == IF u < d THEN 0 ELSE u - d

\* C40: DispatchWait never records a negative block latency: for an update at
\* block u and a pending dispatch at block d the recorded value is 0 when
\* u < d and u - d otherwise
C40_NoNegativeBlockLatency ==
    /\ \A k \in 1..Len(dw.state.blocks_observed) : dw.state.blocks_observed[k] >= 0
    /\ \A i \in UpdatesHandled :
          LET pending == dw.handled[i].before.blocks
              recorded == ObservedBy(i)
          IN /\ Len(recorded) = Len(pending)
             /\ \A k \in 1..Len(pending) :
                   recorded[k] = BlockLatency(dw.handled[i].block_number, pending[k])

\* one update handled with two dispatches pending, one at a later block than
\* the update and one at an earlier block: 0 and the difference were recorded
C40_Witness ==
    \E i \in UpdatesHandled :
        /\ Len(dw.handled[i].before.blocks) = 2
        /\ dw.handled[i].before.blocks[1] > dw.handled[i].block_number
        /\ dw.handled[i].before.blocks[2] < dw.handled[i].block_number
        /\ ObservedBy(i) =
              <<0, dw.handled[i].block_number - dw.handled[i].before.blocks[2]>>

====
